---------------------------- MODULE Spec2Model ----------------------------
(***************************************************************************)
(* A model of MFAT (mfat.c / mfat.h): the block cache, the partition and   *)
(* BPB decoder, the FAT chain walker, the path resolver and the file       *)
(* descriptor layer, as a state machine over the static context s_ctx.     *)
(* Every public API function is one action; the device is a block image    *)
(* reached through the read and write callbacks.                           *)
(***************************************************************************)
EXTENDS Integers, Sequences, FiniteSets, TLC

(***************************************************************************)
(* Program constants.                                                      *)
(***************************************************************************)
MFAT_BLOCK_SIZE == 512
MFAT_NUM_CACHED_BLOCKS == 2
MFAT_NUM_FDS == 4
MFAT_NUM_PARTITIONS == 4
MFAT_NUM_CACHES == 2

MFAT_O_RDONLY == 1
MFAT_O_WRONLY == 2
MFAT_O_RDWR == 3
MFAT_O_APPEND == 4
MFAT_O_CREAT == 8
MFAT_O_DIRECTORY == 16

MFAT_SEEK_SET == 0
MFAT_SEEK_CUR == 1
MFAT_SEEK_END == 2

MFAT_S_IFREG == 32768
MFAT_S_IFDIR == 16384
MFAT_S_IRUSR == 256
MFAT_S_IWUSR == 128
MFAT_S_IXUSR == 64
MFAT_S_IRGRP == 32
MFAT_S_IWGRP == 16
MFAT_S_IXGRP == 8
MFAT_S_IROTH == 4
MFAT_S_IWOTH == 2
MFAT_S_IXOTH == 1

MFAT_PART_ID_FAT16_LT32GB == 4
MFAT_PART_ID_FAT16_GT32GB == 6
MFAT_PART_ID_FAT32 == 11
MFAT_PART_ID_FAT32_LBA == 12
MFAT_PART_ID_FAT16_GT32GB_LBA == 14

MFAT_ATTR_READ_ONLY == 1
MFAT_ATTR_DIRECTORY == 16
MFAT_ATTR_LONG_NAME == 15

MFAT_INVALID == 0
MFAT_VALID == 1
MFAT_DIRTY == 2

MFAT_CACHE_DATA == 0
MFAT_CACHE_FAT == 1

MFAT_TYPE_UNKNOWN == 0
MFAT_TYPE_FAT_UNDECIDED == 1
MFAT_TYPE_FAT16 == 2
MFAT_TYPE_FAT32 == 3

\* 0x0ffffff7 (BAD cluster) and 0x0ffffff8 (first end-of-chain value).
BAD_CLUSTER == 268435447
EOC_MIN == 268435448

(***************************************************************************)
(* Integer helpers: C's unsigned arithmetic and bit operations.            *)
(***************************************************************************)
\* uint32_t values are kept in two's complement in the 32-bit integers of
\* the checker: a value v < 2^31 is v, a value v >= 2^31 is v - 2^32.  Sums,
\* differences and products then wrap as the C code's do (an overflow of
\* the checker's integers is an error, never a wrong value); comparisons of
\* uint32_t values are the unsigned ones below.
ULt(a, b) == IF (a >= 0) = (b >= 0) THEN a < b ELSE b < 0
UGt(a, b) == ULt(b, a)
UGe(a, b) == ~ULt(a, b)

\* a / b for uint32_t a and b with 0 < b < 2^31: a negative a stands for
\* a + 2^32 = (a + 2^31) + (2^31 - 1) + 1.
UDiv(a, b) ==
    IF a >= 0 THEN a \div b
    ELSE IF b = 1 THEN a
    ELSE ((a + 2147483647 + 1) \div b) + (2147483647 \div b)
         + ((((a + 2147483647 + 1) % b) + (2147483647 % b) + 1) \div b)

RECURSIVE BitAnd(_, _)
\* a & b (bitwise, two's complement).
BitAnd(a, b) ==
    IF a = 0 \/ b = 0 THEN 0
    ELSE IF a = -1 THEN b
    ELSE IF b = -1 THEN a
    ELSE (a % 2) * (b % 2) + 2 * BitAnd(a \div 2, b \div 2)

RECURSIVE BitOr(_, _)
\* a | b (bitwise, two's complement).
BitOr(a, b) ==
    IF a = 0 THEN b
    ELSE IF b = 0 THEN a
    ELSE IF a = -1 \/ b = -1 THEN -1
    ELSE (IF a % 2 = 1 \/ b % 2 = 1 THEN 1 ELSE 0) + 2 * BitOr(a \div 2, b \div 2)

\* static inline uint32_t _mfat_min(uint32_t a, uint32_t b)
_mfat_min(a, b) == IF ULt(a, b) THEN a ELSE b

\* buf[o] of the C array buf: a buffer is the sequence of its bytes.
Byte(buf, o) == buf[o + 1]

\* _mfat_get_word(&buf[o]): little-endian 16 bit value.
_mfat_get_word(buf, o) == Byte(buf, o) + 256 * Byte(buf, o + 1)

\* _mfat_get_dword(&buf[o]): little-endian 32 bit value.
_mfat_get_dword(buf, o) ==
    Byte(buf, o) + 256 * Byte(buf, o + 1) + 65536 * Byte(buf, o + 2)
        + 16777216 * (IF Byte(buf, o + 3) >= 128 THEN Byte(buf, o + 3) - 256
                      ELSE Byte(buf, o + 3))

\* _mfat_cmpbuf(&a[ao], &b[bo], nbyte)
_mfat_cmpbuf(a, ao, b, bo, nbyte) ==
    \A i \in 0 .. nbyte - 1 : Byte(a, ao + i) = Byte(b, bo + i)


(***************************************************************************)
(* The block device: what the read callback delivers.  A device is one of  *)
(* a few disk images, laid out as FAT.md describes (MBR, BPB, FAT,         *)
(* directory entries).  A block is the sequence of its 512 bytes.           *)
(***************************************************************************)
Chars ==
    << " ", "!", "\"", "#", "$", "%", "&", "'", "(", ")", "*", "+", ",", "-", ".", "/",
       "0", "1", "2", "3", "4", "5", "6", "7", "8", "9", ":", ";", "<", "=", ">", "?",
       "@", "A", "B", "C", "D", "E", "F", "G", "H", "I", "J", "K", "L", "M", "N", "O",
       "P", "Q", "R", "S", "T", "U", "V", "W", "X", "Y", "Z", "[", "\\", "]", "^", "_",
       "bq", "a", "b", "c", "d", "e", "f", "g", "h", "i", "j", "k", "l", "m", "n", "o",
       "p", "q", "r", "s", "t", "u", "v", "w", "x", "y", "z", "{", "|", "}", "~" >>

\* The ASCII code of a one-character string ("bq" stands for the backquote,
\* code 96, which cannot be written in a string).
Ord(c) == 31 + (CHOOSE i \in 1 .. Len(Chars) : Chars[i] = c)

\* The bytes of a text given as a sequence of one-character strings.
Bytes(txt) == SubSeq([i \in 1 .. Len(txt) |-> Ord(txt[i])], 1, Len(txt))

LE16(v) == << v % 256, (v \div 256) % 256 >>
LE32(v) ==
    << v % 256, (v \div 256) % 256, (v \div 65536) % 256, (v \div 16777216) % 256 >>

ZeroBlock == SubSeq([i \in 1 .. MFAT_BLOCK_SIZE |-> 0], 1, MFAT_BLOCK_SIZE)

RECURSIVE Patched(_, _, _)
\* The block with the patches from the k-th on applied: a patch <<o, bytes>>
\* stores bytes at the offsets o, o + 1, ... of the block.
Patched(block, patches, k) ==
    IF k > Len(patches) THEN block
    ELSE Patched(SubSeq(block, 1, patches[k][1]) \o patches[k][2]
                     \o SubSeq(block, patches[k][1] + Len(patches[k][2]) + 1, Len(block)),
                 patches, k + 1)

\* A block that is zero except for the given <<offset, bytes>> patches.
MkBlock(patches) == Patched(ZeroBlock, patches, 1)

\* 1024 bytes without a period: the content of file data.
DataPattern ==
    SubSeq([i \in 1 .. 2 * MFAT_BLOCK_SIZE |-> (i * 7 + (i \div 16) * (i \div 16)) % 256],
           1, 2 * MFAT_BLOCK_SIZE)

\* The content of a block of file data: it depends on the block number and
\* on the position in the block, so that a wrong block or offset shows.
DataBlock(b) ==
    SubSeq(DataPattern, ((b * 37) % MFAT_BLOCK_SIZE) + 1,
           ((b * 37) % MFAT_BLOCK_SIZE) + MFAT_BLOCK_SIZE)

\* A 16-byte MBR partition entry (FAT.md, "Master Boot Record").
MbrEntry(status, type, lba) ==
    << status, 0, 0, 0, type, 0, 0, 0 >> \o LE32(lba) \o LE32(0)

\* A 32-byte directory entry (FAT.md, "Directory entry"): 8.3 name, attribute,
\* first cluster (high word at 20, low word at 26), time, date and size.
DirEntry(name, attr, cluster, time, date, size) ==
    Bytes(name) \o << attr >> \o << 0, 0, 0, 0, 0, 0, 0, 0 >>
        \o LE16(cluster \div 65536) \o LE16(time) \o LE16(date)
        \o LE16(cluster % 65536) \o LE32(size)

\* A directory block holding the given entries, in order, then 0x00.
DirBlock(entries) ==
    MkBlock([k \in 1 .. Len(entries) |-> << 32 * (k - 1), entries[k] >>])

\* A FAT16 table block holding the given entries for clusters 0, 1, 2, ...
Fat16Block(entries) ==
    MkBlock([k \in 1 .. Len(entries) |-> << 2 * (k - 1), LE16(entries[k]) >>])

\* A FAT32 table block holding the given entries for clusters 0, 1, 2, ...
Fat32Block(entries) ==
    MkBlock([k \in 1 .. Len(entries) |-> << 4 * (k - 1), LE32(entries[k]) >>])

\* A BIOS Parameter Block (FAT.md, "BIOS Parameter Block").
BpbBlock(jump, bps, spc, reserved, nfats, nroot, tot16, fatsz16, tot32, fatsz32, rootclus, sig) ==
    MkBlock(<< << 0, jump >>, << 11, LE16(bps) >>, << 13, << spc >> >>,
               << 14, LE16(reserved) >>, << 16, << nfats >> >>, << 17, LE16(nroot) >>,
               << 19, LE16(tot16) >>, << 21, << 248 >> >>, << 22, LE16(fatsz16) >>,
               << 32, LE32(tot32) >>, << 36, LE32(fatsz32) >>, << 44, LE32(rootclus) >>,
               << 510, sig >> >>)

(***************************************************************************)
(* Device 1: an MBR disk with a FAT16 partition at block 8 (2 blocks per   *)
(* cluster, FAT at 9, root directory at 41, data from 42) and a FAT32      *)
(* partition at block 9000 (1 block per cluster, FAT at 9032, data from    *)
(* 10058, root directory in cluster 2).  Cluster chains are deliberately   *)
(* not contiguous.                                                         *)
(***************************************************************************)
\* Directory entries carry the time 12:34:56 (25692) and the date 2022-03-04
\* (21604).
BootSig == << 85, 170 >>

D1Mbr ==
    MkBlock(<< << 446, MbrEntry(0, MFAT_PART_ID_FAT16_GT32GB, 8) >>,
               << 462, MbrEntry(0, MFAT_PART_ID_FAT32, 9000) >>,
               << 510, BootSig >> >>)

D1Bpb16 == BpbBlock(<< 235, 60, 144 >>, 512, 2, 1, 2, 16, 8204, 16, 0, 0, 0, BootSig)

\* Chains: 2 (HELLO.TXT); 3 -> 5 -> 4 (BIG.BIN); 6 (DIR); 7 -> 8 (EXACT.BIN);
\* 9 (DIR/FILE.BIN).
D1Fat16 ==
    Fat16Block(<< 65528, 65535, 65535, 5, 65535, 4, 65535, 8, 65528, 65535 >>)

D1Root16 ==
    DirBlock(<<
        DirEntry(<< "H", "E", "L", "L", "O", " ", " ", " ", "T", "X", "T" >>, 32, 2, 25692, 21604, 13),
        DirEntry(<< "B", "I", "G", " ", " ", " ", " ", " ", "B", "I", "N" >>, 32, 3, 25692, 21604, 2648),
        DirEntry(<< "D", "I", "R", " ", " ", " ", " ", " ", " ", " ", " " >>, 16, 6, 25692, 21604, 0),
        DirEntry(<< "E", "X", "A", "C", "T", " ", " ", " ", "B", "I", "N" >>, 33, 7, 25692, 21604, 2048),
        DirEntry(<< "E", "M", "P", "T", "Y", " ", " ", " ", "T", "X", "T" >>, 32, 0, 25692, 21604, 0) >>)

D1Hello ==
    MkBlock(<< << 0, Bytes(<< "H", "e", "l", "l", "o", ",", " ", "w", "o", "r", "l", "d", "!" >>) >> >>)

D1Dir16 ==
    DirBlock(<<
        DirEntry(<< ".", " ", " ", " ", " ", " ", " ", " ", " ", " ", " " >>, 16, 6, 25692, 21604, 0),
        DirEntry(<< ".", ".", " ", " ", " ", " ", " ", " ", " ", " ", " " >>, 16, 0, 25692, 21604, 0),
        DirEntry(<< "F", "I", "L", "E", " ", " ", " ", " ", "B", "I", "N" >>, 32, 9, 25692, 21604, 600) >>)

D1Bpb32 == BpbBlock(<< 233, 0, 0 >>, 512, 1, 32, 2, 0, 0, 0, 66658, 513, 2, BootSig)

\* Chains: 2 (root); 3 -> 5 -> 4 (DATA.BIN, entry 5 with its reserved top
\* bits set: 0xF0000004, written -268435452); 6 (SUB); 7 (SUB/X.C).
D1Fat32 ==
    Fat32Block(<< 268435448, -1, 268435455, 5, 268435455, -268435452,
                  268435448, 268435455 >>)

D1Root32 ==
    DirBlock(<<
        DirEntry(<< "D", "A", "T", "A", " ", " ", " ", " ", "B", "I", "N" >>, 32, 3, 25692, 21604, 1536),
        DirEntry(<< "S", "U", "B", " ", " ", " ", " ", " ", " ", " ", " " >>, 16, 6, 25692, 21604, 0) >>)

D1Sub32 ==
    DirBlock(<<
        DirEntry(<< ".", " ", " ", " ", " ", " ", " ", " ", " ", " ", " " >>, 16, 6, 25692, 21604, 0),
        DirEntry(<< ".", ".", " ", " ", " ", " ", " ", " ", " ", " ", " " >>, 16, 0, 25692, 21604, 0),
        DirEntry(<< "X", " ", " ", " ", " ", " ", " ", " ", "C", " ", " " >>, 32, 7, 25692, 21604, 10) >>)

D1Block(b) ==
    CASE b = 0 -> D1Mbr
      [] b = 8 -> D1Bpb16
      [] b = 9 \/ b = 25 -> D1Fat16
      [] b = 41 -> D1Root16
      [] b = 42 -> D1Hello
      [] b = 50 -> D1Dir16
      [] b = 9000 -> D1Bpb32
      [] b = 9032 \/ b = 9545 -> D1Fat32
      [] b = 10058 -> D1Root32
      [] b = 10062 -> D1Sub32
      [] (b >= 43 /\ b < 8212) \/ (b >= 10059 /\ b < 75658) -> DataBlock(b)
      [] OTHER -> ZeroBlock

(***************************************************************************)
(* Device 2: the layout of device 1 on a disk of 600,000,000 blocks, with  *)
(* damaged files and large directories.  The FAT16 partition has a root    *)
(* directory of 32 entries (blocks 41 and 42, data from 43) that is full,  *)
(* so that it holds no 0x00 entry; the directory DEEP is the cluster chain *)
(* 7 -> 9 -> 8 and the FAT32 root directory the chain 2 -> 4 -> 3.         *)
(***************************************************************************)
\* The 8.3 name made of the letter c and the two digits of k.
NumName(c, k) == << c, 48 + (k \div 10), 48 + (k % 10), 32, 32, 32, 32, 32, 32, 32, 32 >>

\* A 32-byte directory entry with its name given as 11 bytes.
DirEntryOf(name, attr, cluster, time, date, size) ==
    name \o << attr >> \o << 0, 0, 0, 0, 0, 0, 0, 0 >>
        \o LE16(cluster \div 65536) \o LE16(time) \o LE16(date)
        \o LE16(cluster % 65536) \o LE32(size)

\* The entries c<from> .. c<to>: files of 5 bytes in the given cluster.
NumEntries(c, from, to, cluster) ==
    [k \in 1 .. to - from + 1 |->
        DirEntryOf(NumName(c, from + k - 1), 32, cluster, 25692, 21604, 5)]

D2Bpb16 == BpbBlock(<< 235, 60, 144 >>, 512, 2, 1, 2, 32, 8205, 16, 0, 0, 0, BootSig)

\* Chains: 2 (SHORT.BIN); 3 -> 4 -> free (FREE.BIN); 5 -> 6 -> BAD (BAD.BIN);
\* 7 -> 9 -> 8 (DEEP); 10 (the files of 5 bytes); the cycle 14 -> 15 -> 14
\* (R13); 16 (the directory LFN).  No file uses the entries of clusters 11
\* (0xFFF6), 12 (0xFFF8) and 13.
D2Fat16 ==
    Fat16Block(<< 65528, 65535, 65535, 4, 0, 6, 65527, 9, 65535, 8, 65535,
                  65526, 65528, 12, 15, 14, 65535 >>)

\* SHORT.BIN, FREE.BIN and BAD.BIN have a size of 3000 bytes, which is more
\* than their chains hold; so have R14, whose first cluster is 0, and R15,
\* whose first cluster is 0x0FFFFFF7.  R13 has 5000 bytes in a chain that is
\* a cycle.  LFN, in the place of R12, is a directory.
D2Root16a ==
    DirBlock(<<
        DirEntry(<< "S", "H", "O", "R", "T", " ", " ", " ", "B", "I", "N" >>, 32, 2, 25692, 21604, 3000),
        DirEntry(<< "F", "R", "E", "E", " ", " ", " ", " ", "B", "I", "N" >>, 32, 3, 25692, 21604, 3000),
        DirEntry(<< "B", "A", "D", " ", " ", " ", " ", " ", "B", "I", "N" >>, 32, 5, 25692, 21604, 3000),
        DirEntry(<< "D", "E", "E", "P", " ", " ", " ", " ", " ", " ", " " >>, 16, 7, 25692, 21604, 0) >>
        \o NumEntries(82, 4, 11, 10)
        \o << DirEntry(<< "L", "F", "N", " ", " ", " ", " ", " ", " ", " ", " " >>, 16, 16, 25692, 21604, 0),
               DirEntryOf(NumName(82, 13), 32, 14, 25692, 21604, 5000),
               DirEntryOf(NumName(82, 14), 32, 0, 25692, 21604, 3000),
               DirEntryOf(NumName(82, 15), 32, BAD_CLUSTER, 25692, 21604, 3000) >>)

D2Root16b == DirBlock(NumEntries(82, 16, 31, 10))

\* DEEP: E02 .. E15 after "." and "..", E16 .. E31, E32 .. E47, E48 .. E63,
\* and in its last cluster E64, E65, the 0x00 entry, E67.
D2Deep0 ==
    DirBlock(<<
        DirEntry(<< ".", " ", " ", " ", " ", " ", " ", " ", " ", " ", " " >>, 16, 7, 25692, 21604, 0),
        DirEntry(<< ".", ".", " ", " ", " ", " ", " ", " ", " ", " ", " " >>, 16, 0, 25692, 21604, 0) >>
        \o NumEntries(69, 2, 15, 10))

D2DeepLast ==
    MkBlock(<< << 0, NumEntries(69, 64, 64, 10)[1] >>, << 32, NumEntries(69, 65, 65, 10)[1] >>,
               << 96, NumEntries(69, 67, 67, 10)[1] >> >>)

\* LFN: a long-name entry (attribute 0x0F) whose first 11 bytes are "A" and
\* ten spaces: sequence number 0x41 and the name U+2020 x 5; the file A; a
\* deleted entry (first byte 0xE5) that was ONE.TXT; the file LIVE; a
\* long-name entry whose first 11 bytes are "SUB" and eight spaces; the
\* directory SUB (the chain of DEEP); the 0x00 entry; the file PAST.
D2Lfn ==
    MkBlock(<<
        << 0, DirEntry(<< "A", " ", " ", " ", " ", " ", " ", " ", " ", " ", " " >>,
                       MFAT_ATTR_LONG_NAME, 0, 0, 0, 77) >>,
        << 32, DirEntry(<< "A", " ", " ", " ", " ", " ", " ", " ", " ", " ", " " >>,
                        32, 10, 25692, 21604, 5) >>,
        << 64, DirEntryOf(<< 229, 78, 69, 32, 32, 32, 32, 32, 84, 88, 84 >>,
                          32, 10, 25692, 21604, 5) >>,
        << 96, DirEntry(<< "L", "I", "V", "E", " ", " ", " ", " ", " ", " ", " " >>,
                        32, 10, 25692, 21604, 5) >>,
        << 128, DirEntry(<< "S", "U", "B", " ", " ", " ", " ", " ", " ", " ", " " >>,
                         MFAT_ATTR_LONG_NAME, 0, 0, 0, 77) >>,
        << 160, DirEntry(<< "S", "U", "B", " ", " ", " ", " ", " ", " ", " ", " " >>,
                         16, 7, 25692, 21604, 0) >>,
        << 224, DirEntry(<< "P", "A", "S", "T", " ", " ", " ", " ", " ", " ", " " >>,
                         32, 10, 25692, 21604, 5) >> >>)

D2Bpb32 == D1Bpb32

\* Chains: 2 -> 4 -> 3 (root); 5 (the files of 5 bytes).  No file uses the
\* entries of clusters 6 (BAD), 7 (0xFFFFFFF7), 8 (0xF0000000),
\* 9 (0xF0000008) and 10 (0xFFFFFFF8).
D2Fat32 ==
    Fat32Block(<< 268435448, -1, 4, 268435455, 3, 268435455,
                  268435447, -9, -268435456, -268435448, -8 >>)

\* The FAT32 root directory: R00 .. R15, R16 .. R31, and in its last cluster
\* R32, the 0x00 entry, R34.
D2Root32Last ==
    MkBlock(<< << 0, NumEntries(82, 32, 32, 5)[1] >>, << 64, NumEntries(82, 34, 34, 5)[1] >> >>)

D2Size == 600000000

D2Block(b) ==
    CASE b = 0 -> D1Mbr
      [] b = 8 -> D2Bpb16
      [] b = 9 \/ b = 25 -> D2Fat16
      [] b = 41 -> D2Root16a
      [] b = 42 -> D2Root16b
      [] b = 53 -> D2Deep0
      [] b = 54 -> DirBlock(NumEntries(69, 16, 31, 10))
      [] b = 57 -> DirBlock(NumEntries(69, 32, 47, 10))
      [] b = 58 -> DirBlock(NumEntries(69, 48, 63, 10))
      [] b = 55 -> D2DeepLast
      [] b = 71 -> D2Lfn
      [] b = 9000 -> D2Bpb32
      [] b = 9032 \/ b = 9545 -> D2Fat32
      [] b = 10058 -> DirBlock(NumEntries(82, 0, 15, 5))
      [] b = 10060 -> DirBlock(NumEntries(82, 16, 31, 5))
      [] b = 10059 -> D2Root32Last
      [] b >= 43 /\ b < D2Size -> DataBlock(b % 1000)
      [] OTHER -> ZeroBlock

(***************************************************************************)
(* Devices 2000 ..: MBR disks whose four partition entries are each one of *)
(* three kinds (0: not a FAT partition id, 1: a FAT id with a BPB the      *)
(* library supports, 2: a FAT id with a BPB it does not support), bootable *)
(* or not.  The device number is 2000 + v + 4 * (e0 + 6 e1 + 36 e2 +       *)
(* 216 e3) with ei = kind + 3 * boot of entry i; v rotates which supported *)
(* BPB (FAT16, FAT32) and which unsupported one (bad signature, bad jump   *)
(* code, 1024 bytes per sector, FAT12 cluster count) an entry gets.  The   *)
(* partition of entry i starts at block 100 * (i + 1).                     *)
(***************************************************************************)
MbrBase == 2000
MbrKinds == 6
MbrVariants == 4
MbrDevices == MbrBase .. MbrBase + MbrVariants * MbrKinds * MbrKinds * MbrKinds * MbrKinds - 1

MbrVariant(d) == (d - MbrBase) % MbrVariants
MbrDigit(d, i) ==
    (((d - MbrBase) \div MbrVariants) \div << 1, 6, 36, 216 >>[i + 1]) % MbrKinds
MbrKind(d, i) == MbrDigit(d, i) % 3
MbrBoot(d, i) == MbrDigit(d, i) \div 3 = 1
MbrStart(i) == 100 * (i + 1)

\* BPBs the library does not support: a bad signature, a bad jump code,
\* 1024 bytes per sector, and a cluster count of 4084 (FAT12).
BadBpb(flavor) ==
    CASE flavor = 0 -> BpbBlock(<< 235, 60, 144 >>, 512, 2, 1, 2, 16, 8204, 16, 0, 0, 0, << 85, 171 >>)
      [] flavor = 1 -> BpbBlock(<< 235, 60, 0 >>, 512, 2, 1, 2, 16, 8204, 16, 0, 0, 0, BootSig)
      [] flavor = 2 -> BpbBlock(<< 235, 60, 144 >>, 1024, 2, 1, 2, 16, 8204, 16, 0, 0, 0, BootSig)
      [] flavor = 3 -> BpbBlock(<< 235, 60, 144 >>, 512, 2, 1, 2, 16, 8203, 16, 0, 0, 0, BootSig)

\* BPBs the library supports: FAT16 (4085 clusters) and FAT32.
GoodBpb(flavor) == IF flavor = 0 THEN D1Bpb16 ELSE D1Bpb32

\* The partition type ids of the four entries when they are FAT ids.
MbrFatIds ==
    << MFAT_PART_ID_FAT16_LT32GB, MFAT_PART_ID_FAT32, MFAT_PART_ID_FAT32_LBA,
       MFAT_PART_ID_FAT16_GT32GB_LBA >>

\* 0x83, a partition type id that is not a FAT id.
LinuxPartId == 131

MbrOf(d) ==
    MkBlock([k \in 1 .. 5 |->
        IF k = 5 THEN << 510, BootSig >>
        ELSE << 446 + 16 * (k - 1),
                MbrEntry(IF MbrBoot(d, k - 1) THEN 128 ELSE 0,
                         IF MbrKind(d, k - 1) = 0 THEN LinuxPartId ELSE MbrFatIds[k],
                         MbrStart(k - 1)) >>])

\* Block b of an MBR disk; the first block of a partition that is not a FAT
\* partition holds a supported BPB all the same.
MbrBlock(d, b) ==
    IF b = 0 THEN MbrOf(d)
    ELSE IF \E i \in 0 .. 3 : b = MbrStart(i)
    THEN IF MbrKind(d, (b \div 100) - 1) = 2
         THEN BadBpb(((b \div 100) - 1 + MbrVariant(d)) % 4)
         ELSE GoodBpb(((b \div 100) - 1 + MbrVariant(d)) % 2)
    ELSE ZeroBlock

(***************************************************************************)
(* Devices 3000 .. 3006: media without a partition table, block 0 being a  *)
(* supported FAT16 or FAT32 BPB, one of the four unsupported BPBs, or (the *)
(* last one) all zero.                                                     *)
(***************************************************************************)
BareBase == 3000
BareDevices == BareBase .. BareBase + 6

BareBlock(d, b) ==
    IF b # 0 \/ d = BareBase + 6 THEN ZeroBlock
    ELSE IF d - BareBase < 2 THEN GoodBpb(d - BareBase)
    ELSE BadBpb(d - BareBase - 2)

(***************************************************************************)
(* Devices 100000 ..: media without a partition table whose BPB (valid     *)
(* signature and jump code, 512 bytes per sector) varies in the fields the *)
(* FAT type is computed from.  The device number is 100000 + s + 4 * (l +  *)
(* 2 * (t + 5 * x)): sectors per cluster BpbSpc[s + 1]; layout l = 0 with  *)
(* 1 reserved block, two FATs of 16 blocks and 16 root entries, l = 1 with *)
(* 32 reserved blocks, two FATs of 513 blocks and no root entries; the     *)
(* total number of blocks puts BpbCounts[t + 1] clusters after these (or,  *)
(* for t = 4, is 5: less than the blocks before the data area), plus x     *)
(* times the largest remainder that adds no cluster.                       *)
(***************************************************************************)
BpbBase == 100000
BpbDevices == BpbBase .. BpbBase + 4 * 2 * 5 * 2 - 1
BpbSpc == << 0, 1, 2, 8 >>
BpbCounts == << 4084, 4085, 65524, 65525 >>

BpbSpcOf(d) == BpbSpc[((d - BpbBase) % 4) + 1]
BpbLayout(d) == ((d - BpbBase) \div 4) % 2
BpbTarget(d) == ((d - BpbBase) \div 8) % 5
BpbExtra(d) == ((d - BpbBase) \div 40) % 2

\* The blocks before the data area: reserved + FATs + root directory.
BpbOverhead(d) == IF BpbLayout(d) = 0 THEN 1 + 2 * 16 + 1 ELSE 32 + 2 * 513

\* The total number of blocks in the BPB.
BpbTotal(d) ==
    IF BpbTarget(d) = 4 THEN 5
    ELSE BpbOverhead(d)
         + (IF BpbSpcOf(d) = 0 THEN 1 ELSE BpbSpcOf(d)) * BpbCounts[BpbTarget(d) + 1]
         + (IF BpbSpcOf(d) = 0 THEN 0 ELSE BpbExtra(d) * (BpbSpcOf(d) - 1))

\* The root directory cluster field (offset 44) of the BPB.
BpbRootCluster(d) == IF BpbLayout(d) = 0 THEN 0 ELSE 2

BpbOf(d) ==
    IF BpbLayout(d) = 0
    THEN BpbBlock(<< 235, 60, 144 >>, 512, BpbSpcOf(d), 1, 2, 16,
                  IF BpbTotal(d) < 65536 THEN BpbTotal(d) ELSE 0, 16,
                  IF BpbTotal(d) < 65536 THEN 0 ELSE BpbTotal(d), 0, 0, BootSig)
    ELSE BpbBlock(<< 233, 0, 0 >>, 512, BpbSpcOf(d), 32, 2, 0,
                  IF BpbTotal(d) < 65536 THEN BpbTotal(d) ELSE 0, 0,
                  IF BpbTotal(d) < 65536 THEN 0 ELSE BpbTotal(d), 513, BpbRootCluster(d),
                  BootSig)

(***************************************************************************)
(* Devices 200000 ..: media without a partition table whose BPB (valid     *)
(* signature and jump code) varies in sectors per cluster and bytes per    *)
(* sector.  The device number is 200000 + s + 8 * (b + 3 * t): sectors per *)
(* cluster GeoSpc[s + 1], bytes per sector GeoBps[b + 1], and a total      *)
(* number of blocks that puts 5000 (t = 0) or 70000 (t = 1) clusters after *)
(* 1 reserved block, two FATs of 16 blocks and 16 root entries (a cluster  *)
(* counted as one block where sectors per cluster is 0).                   *)
(***************************************************************************)
GeoDevices == 200000 .. 200000 + 8 * 3 * 2 - 1
GeoSpc == << 0, 1, 2, 3, 64, 128, 129, 255 >>
GeoBps == << 512, 1024, 256 >>

GeoSpcOf(d) == GeoSpc[((d - 200000) % 8) + 1]
GeoBpsOf(d) == GeoBps[(((d - 200000) \div 8) % 3) + 1]
GeoClusters(d) == IF ((d - 200000) \div 24) % 2 = 0 THEN 5000 ELSE 70000

GeoTotal(d) ==
    1 + 2 * 16 + 1 + (IF GeoSpcOf(d) = 0 THEN 1 ELSE GeoSpcOf(d)) * GeoClusters(d)

GeoBpb(d) ==
    BpbBlock(<< 235, 60, 144 >>, GeoBpsOf(d), GeoSpcOf(d), 1, 2, 16,
             IF GeoTotal(d) < 65536 THEN GeoTotal(d) ELSE 0, 16,
             IF GeoTotal(d) < 65536 THEN 0 ELSE GeoTotal(d), 0, 2, BootSig)

\* The devices a caller may hand to mfat_mount.
Devices == {1, 2} \cup MbrDevices \cup BareDevices \cup BpbDevices \cup GeoDevices

\* The number of blocks of a device; reading a block past it fails.
DevSize(d) == IF d = 1 THEN 75658 ELSE IF d = 2 THEN D2Size ELSE 1000

\* The content of block b of device d as formatted (before any write).
DevImage(d, b) ==
    IF d = 1 THEN D1Block(b)
    ELSE IF d = 2 THEN D2Block(b)
    ELSE IF d \in MbrDevices THEN MbrBlock(d, b)
    ELSE IF d \in BareDevices THEN BareBlock(d, b)
    ELSE IF b # 0 THEN ZeroBlock
    ELSE IF d \in GeoDevices THEN GeoBpb(d)
    ELSE BpbOf(d)

(***************************************************************************)
(* The machine a call runs on.  The private functions of mfat.c are        *)
(* operators that take and return a record m:                              *)
(*   dev    the device behind the callbacks (s_ctx.read / write / custom), *)
(*   fail   which callback invocation of this call returns -1 (0: none),   *)
(*   n      the number of callback invocations of this call so far,        *)
(*   rlog   the blocks the read callback was invoked for in this call,     *)
(*   wlog   every <<block, buffer>> the write callback has stored,         *)
(*   cache  s_ctx.cache.                                                   *)
(***************************************************************************)
CacheIds == 0 .. MFAT_NUM_CACHED_BLOCKS - 1

\* The device's current content of block b: the last write, else the image.
DevContent(dev, wlog, b) ==
    LET ws == {k \in 1 .. Len(wlog) : wlog[k][1] = b}
    IN  IF ws = {} THEN DevImage(dev, b)
        ELSE wlog[CHOOSE k \in ws : \A j \in ws : j <= k][2]

\* Binding: the value of Body for x = v, with v evaluated once.
Let(v, Body(_)) == CHOOSE y \in {Body(x) : x \in {v}} : TRUE

\* s_ctx.read(buf, blk_no, s_ctx.custom): -1 when this invocation is the one
\* that fails or the block lies past the end of the device.
DevRead(m, blk_no) ==
    Let((m.n + 1 # m.fail) /\ blk_no >= 0 /\ blk_no < DevSize(m.dev), LAMBDA ok :
        [ok  |-> ok,
         buf |-> IF ok THEN DevContent(m.dev, m.wlog, blk_no) ELSE ZeroBlock,
         m   |-> [m EXCEPT !.n = @ + 1, !.rlog = Append(@, blk_no)]])

\* s_ctx.write(buf, blk_no, s_ctx.custom)
DevWrite(m, buf, blk_no) ==
    Let((m.n + 1 # m.fail) /\ blk_no >= 0 /\ blk_no < DevSize(m.dev), LAMBDA ok :
        [ok |-> ok,
         m  |-> [m EXCEPT !.n = @ + 1,
                          !.wlog = IF ok THEN Append(@, << blk_no, buf >>) ELSE @]])

\* MFAT_NUM_CACHED_BLOCKS of the build a cache comes from: the length of its
\* arrays block and pri.
NumCachedBlocks(pri) == Cardinality(DOMAIN pri)

RECURSIVE PriToFrontNoStop(_, _, _, _)
\* The loop that moves item_id to the front of the priority queue, without
\* its break at the previous place of item_id.
PriToFrontNoStop(pri, item_id, prev_id, i) ==
    IF i >= NumCachedBlocks(pri) THEN pri
    ELSE PriToFrontNoStop([pri EXCEPT ![i] = prev_id], item_id, pri[i], i + 1)

RECURSIVE PriToFront(_, _, _, _)
\* The loop of _mfat_get_cached_block that moves item_id to the front of the
\* priority queue, from index i on with prev_id carried.
PriToFront(pri, item_id, prev_id, i) ==
    IF i >= NumCachedBlocks(pri) THEN pri
    ELSE IF pri[i] = item_id THEN [pri EXCEPT ![i] = prev_id]
    ELSE PriToFront([pri EXCEPT ![i] = prev_id], item_id, pri[i], i + 1)

\* SelectItem with the state test of the hit loop inverted: only Invalid
\* slots tagged with blk_no hit.
SelectItemInvalidHit(cache, blk_no) ==
    Let({i \in DOMAIN cache.block :
            cache.block[i].state = MFAT_INVALID /\ cache.block[i].blk_no = blk_no},
        LAMBDA hits :
            IF hits # {} THEN CHOOSE i \in hits : \A j \in hits : i <= j
            ELSE cache.pri[NumCachedBlocks(cache.pri) - 1])

\* SelectItem without the hit loop: always the last item of the priority
\* queue.
SelectItemNoHit(cache, blk_no) == cache.pri[NumCachedBlocks(cache.pri) - 1]

\* The slot _mfat_get_cached_block selects: the first slot that is not
\* invalid and holds blk_no, else the last item of the priority queue.
SelectItem(cache, blk_no) ==
    Let({i \in DOMAIN cache.block :
            cache.block[i].state # MFAT_INVALID /\ cache.block[i].blk_no = blk_no},
        LAMBDA hits :
            IF hits # {} THEN CHOOSE i \in hits : \A j \in hits : i <= j
            ELSE cache.pri[NumCachedBlocks(cache.pri) - 1])

\* _mfat_get_cached_block, but a slot whose flush fails is made Invalid and
\* tagged with the requested block before NULL is returned.
GetCachedBlockDropsDirty(m, blk_no, cache_type) ==
    Let(SelectItem(m.cache[cache_type], blk_no), LAMBDA item_id :
    Let([m EXCEPT !.cache[cache_type].pri = PriToFront(@, item_id, item_id, 0)], LAMBDA m1 :
    Let(m1.cache[cache_type].block[item_id], LAMBDA cb :
        IF cb.blk_no # blk_no
        THEN Let(IF cb.state = MFAT_DIRTY
                 THEN DevWrite(m1, cb.buf, cb.blk_no)
                 ELSE [ok |-> TRUE, m |-> m1], LAMBDA w :
                 [m  |-> [w.m EXCEPT !.cache[cache_type].block[item_id].blk_no = blk_no,
                                     !.cache[cache_type].block[item_id].state = MFAT_INVALID],
                  ok |-> w.ok, id |-> item_id])
        ELSE [m |-> m1, ok |-> TRUE, id |-> item_id])))

\* static mfat_cached_block_t* _mfat_get_cached_block(blk_no, cache_type)
\* Returns [m, ok, id]: ok = FALSE is the NULL return, id the selected slot.
_mfat_get_cached_block(m, blk_no, cache_type) ==
    Let(SelectItem(m.cache[cache_type], blk_no), LAMBDA item_id :
    Let([m EXCEPT !.cache[cache_type].pri = PriToFront(@, item_id, item_id, 0)], LAMBDA m1 :
    Let(m1.cache[cache_type].block[item_id], LAMBDA cb :
        IF cb.blk_no # blk_no
        THEN Let(IF cb.state = MFAT_DIRTY
                 THEN DevWrite(m1, cb.buf, cb.blk_no)
                 ELSE [ok |-> TRUE, m |-> m1], LAMBDA w :
                 IF ~w.ok THEN [m |-> w.m, ok |-> FALSE, id |-> item_id]
                 ELSE [m  |-> [w.m EXCEPT !.cache[cache_type].block[item_id].blk_no = blk_no,
                                          !.cache[cache_type].block[item_id].state = MFAT_INVALID],
                       ok |-> TRUE, id |-> item_id])
        ELSE [m |-> m1, ok |-> TRUE, id |-> item_id])))

\* _mfat_read_block, but the slot is marked Valid also when the device
\* request fails.
ReadBlockValidOnFailure(m, block_no, cache_type) ==
    Let(_mfat_get_cached_block(m, block_no, cache_type), LAMBDA g :
        IF ~g.ok THEN [m |-> g.m, ok |-> FALSE, id |-> g.id, buf |-> ZeroBlock]
        ELSE IF g.m.cache[cache_type].block[g.id].state = MFAT_INVALID
        THEN Let(DevRead(g.m, block_no), LAMBDA r :
                 IF ~r.ok
                 THEN [m  |-> [r.m EXCEPT
                                 !.cache[cache_type].block[g.id].state = MFAT_VALID],
                       ok |-> FALSE, id |-> g.id, buf |-> ZeroBlock]
                 ELSE [m  |-> [r.m EXCEPT
                                 !.cache[cache_type].block[g.id].buf = r.buf,
                                 !.cache[cache_type].block[g.id].state = MFAT_VALID],
                       ok |-> TRUE, id |-> g.id, buf |-> r.buf])
        ELSE [m |-> g.m, ok |-> TRUE, id |-> g.id,
              buf |-> g.m.cache[cache_type].block[g.id].buf])

\* static mfat_cached_block_t* _mfat_read_block(block_no, cache_type)
\* Returns [m, ok, id, buf]: buf is the content of the returned slot.
_mfat_read_block(m, block_no, cache_type) ==
    Let(_mfat_get_cached_block(m, block_no, cache_type), LAMBDA g :
        IF ~g.ok THEN [m |-> g.m, ok |-> FALSE, id |-> g.id, buf |-> ZeroBlock]
        ELSE IF g.m.cache[cache_type].block[g.id].state = MFAT_INVALID
        THEN Let(DevRead(g.m, block_no), LAMBDA r :
                 IF ~r.ok
                 THEN [m |-> r.m, ok |-> FALSE, id |-> g.id, buf |-> ZeroBlock]
                 ELSE [m  |-> [r.m EXCEPT
                                 !.cache[cache_type].block[g.id].buf = r.buf,
                                 !.cache[cache_type].block[g.id].state = MFAT_VALID],
                       ok |-> TRUE, id |-> g.id, buf |-> r.buf])
        ELSE [m |-> g.m, ok |-> TRUE, id |-> g.id,
              buf |-> g.m.cache[cache_type].block[g.id].buf])

(***************************************************************************)
(* The FAT chain walker and the cluster position cursor.                   *)
(***************************************************************************)
\* FatEntry without the mask of a FAT32 entry to its 28 bits.
FatEntryUnmasked(part, buf, o) ==
    IF part.type = MFAT_TYPE_FAT32
    THEN _mfat_get_dword(buf, o)
    ELSE IF _mfat_get_word(buf, o) >= 65527
         THEN BitOr(_mfat_get_word(buf, o), 268369920)
         ELSE _mfat_get_word(buf, o)

\* The value _mfat_next_cluster decodes from the FAT block buf at offset o.
FatEntry(part, buf, o) ==
    IF part.type = MFAT_TYPE_FAT32
    THEN BitAnd(_mfat_get_dword(buf, o), 268435455)
    ELSE IF _mfat_get_word(buf, o) >= 65527
         THEN BitOr(_mfat_get_word(buf, o), 268369920)
         ELSE _mfat_get_word(buf, o)

\* static mfat_bool_t _mfat_next_cluster(part, uint32_t* cluster)
\* Returns [m, ok, cluster]; cluster is unchanged when ok = FALSE.
_mfat_next_cluster(m, part, cluster) ==
    Let((IF part.type = MFAT_TYPE_FAT32 THEN 4 ELSE 2) * cluster, LAMBDA fat_offset :
    Let(_mfat_read_block(m, part.first_block + part.num_reserved_blocks
                                + (fat_offset \div MFAT_BLOCK_SIZE), MFAT_CACHE_FAT),
        LAMBDA r :
        IF ~r.ok THEN [m |-> r.m, ok |-> FALSE, cluster |-> cluster]
        ELSE Let(FatEntry(part, r.buf, fat_offset % MFAT_BLOCK_SIZE), LAMBDA next_cluster :
                 IF next_cluster = 0 \/ next_cluster = BAD_CLUSTER
                 THEN [m |-> r.m, ok |-> FALSE, cluster |-> cluster]
                 ELSE [m |-> r.m, ok |-> TRUE, cluster |-> next_cluster])))

\* static uint32_t _mfat_first_block_of_cluster(part, cluster)
_mfat_first_block_of_cluster(part, cluster) ==
    (part.first_data_block + ((cluster - 2) * part.blocks_per_cluster))

\* static mfat_cluster_pos_t _mfat_cluster_pos_init(part, cluster_no, offset)
_mfat_cluster_pos_init(part, cluster_no, offset) ==
    [cluster_no        |-> cluster_no,
     block_in_cluster  |->
        (offset % (part.blocks_per_cluster * MFAT_BLOCK_SIZE)) \div MFAT_BLOCK_SIZE,
     cluster_start_blk |-> _mfat_first_block_of_cluster(part, cluster_no)]

\* static mfat_cluster_pos_t _mfat_cluster_pos_init_from_file(part, f)
_mfat_cluster_pos_init_from_file(part, f) ==
    _mfat_cluster_pos_init(part, f.current_cluster, f.offset)

\* static mfat_bool_t _mfat_cluster_pos_advance(cpos, part)
\* Returns [m, ok, cpos].
_mfat_cluster_pos_advance(m, cpos, part) ==
    IF cpos.block_in_cluster + 1 = part.blocks_per_cluster
    THEN Let(_mfat_next_cluster(m, part, cpos.cluster_no), LAMBDA nc :
             IF ~nc.ok
             THEN [m |-> nc.m, ok |-> FALSE,
                   cpos |-> [cpos EXCEPT !.block_in_cluster = @ + 1]]
             ELSE [m |-> nc.m, ok |-> TRUE,
                   cpos |-> [cluster_no |-> nc.cluster,
                             block_in_cluster |-> 0,
                             cluster_start_blk |->
                                 _mfat_first_block_of_cluster(part, nc.cluster)]])
    ELSE [m |-> m, ok |-> TRUE, cpos |-> [cpos EXCEPT !.block_in_cluster = @ + 1]]

\* static uint32_t _mfat_cluster_pos_blk_no(cpos)
_mfat_cluster_pos_blk_no(cpos) == (cpos.cluster_start_blk + cpos.block_in_cluster)

\* static mfat_bool_t _mfat_is_eoc(cluster)
_mfat_is_eoc(cluster) == UGe(cluster, EOC_MIN)

(***************************************************************************)
(* read and lseek on an open file f of partition part.                     *)
(***************************************************************************)
\* memcpy(buf, &block[0], count): the copy that forgets the offset in the block.
CopyOutFromStart(block, from, count) == SubSeq(block, 1, count)

\* memcpy(buf, &block[from], count): the bytes copied, in order.
CopyOut(block, from, count) == SubSeq(block, from + 1, from + count)

\* The head of _mfat_read_impl: the partial block up to a block boundary.
\* Returns [m, ok, cpos, bytes_read, out].
ReadHead(m, part, f, cpos, nbyte) ==
    IF f.offset % MFAT_BLOCK_SIZE = 0
    THEN [m |-> m, ok |-> TRUE, cpos |-> cpos, bytes_read |-> 0, out |-> << >>]
    ELSE
    Let(f.offset % MFAT_BLOCK_SIZE, LAMBDA block_offset :
    Let(_mfat_read_block(m, _mfat_cluster_pos_blk_no(cpos), MFAT_CACHE_DATA), LAMBDA r :
        IF ~r.ok
        THEN [m |-> r.m, ok |-> FALSE, cpos |-> cpos, bytes_read |-> 0, out |-> << >>]
        ELSE
        Let(_mfat_min(MFAT_BLOCK_SIZE - block_offset, nbyte), LAMBDA bytes_to_copy :
        Let(CopyOut(r.buf, block_offset, bytes_to_copy), LAMBDA out :
            IF bytes_to_copy = MFAT_BLOCK_SIZE - block_offset
            THEN Let(_mfat_cluster_pos_advance(r.m, cpos, part), LAMBDA a :
                     [m |-> a.m, ok |-> a.ok, cpos |-> a.cpos,
                      bytes_read |-> bytes_to_copy, out |-> out])
            ELSE [m |-> r.m, ok |-> TRUE, cpos |-> cpos,
                  bytes_read |-> bytes_to_copy, out |-> out]))))

RECURSIVE ReadBodyCached(_, _, _, _, _, _)
\* The loop of _mfat_read_impl over the aligned blocks, but with every block
\* read through the data cache.
ReadBodyCached(m, part, cpos, nbyte, bytes_read, out) ==
    IF ULt(nbyte - bytes_read, MFAT_BLOCK_SIZE)
    THEN [m |-> m, ok |-> TRUE, cpos |-> cpos, bytes_read |-> bytes_read, out |-> out]
    ELSE IF _mfat_is_eoc(cpos.cluster_no)
    THEN [m |-> m, ok |-> FALSE, cpos |-> cpos, bytes_read |-> bytes_read, out |-> out]
    ELSE
    Let(_mfat_read_block(m, _mfat_cluster_pos_blk_no(cpos), MFAT_CACHE_DATA), LAMBDA r :
        IF ~r.ok
        THEN [m |-> r.m, ok |-> FALSE, cpos |-> cpos, bytes_read |-> bytes_read, out |-> out]
        ELSE
        Let(out \o CopyOut(r.buf, 0, MFAT_BLOCK_SIZE), LAMBDA out1 :
        Let(_mfat_cluster_pos_advance(r.m, cpos, part), LAMBDA a :
            IF ~a.ok
            THEN [m |-> a.m, ok |-> FALSE, cpos |-> a.cpos,
                  bytes_read |-> bytes_read + MFAT_BLOCK_SIZE, out |-> out1]
            ELSE ReadBodyCached(a.m, part, a.cpos, nbyte, bytes_read + MFAT_BLOCK_SIZE,
                                out1))))

RECURSIVE ReadBody(_, _, _, _, _, _)
\* The loop of _mfat_read_impl that reads aligned blocks straight into the
\* caller's buffer.  Returns [m, ok, cpos, bytes_read, out].
ReadBody(m, part, cpos, nbyte, bytes_read, out) ==
    IF ULt(nbyte - bytes_read, MFAT_BLOCK_SIZE)
    THEN [m |-> m, ok |-> TRUE, cpos |-> cpos, bytes_read |-> bytes_read, out |-> out]
    ELSE IF _mfat_is_eoc(cpos.cluster_no)
    THEN [m |-> m, ok |-> FALSE, cpos |-> cpos, bytes_read |-> bytes_read, out |-> out]
    ELSE
    Let(DevRead(m, _mfat_cluster_pos_blk_no(cpos)), LAMBDA r :
        IF ~r.ok
        THEN [m |-> r.m, ok |-> FALSE, cpos |-> cpos, bytes_read |-> bytes_read, out |-> out]
        ELSE
        Let(out \o CopyOut(r.buf, 0, MFAT_BLOCK_SIZE), LAMBDA out1 :
        Let(_mfat_cluster_pos_advance(r.m, cpos, part), LAMBDA a :
            IF ~a.ok
            THEN [m |-> a.m, ok |-> FALSE, cpos |-> a.cpos,
                  bytes_read |-> bytes_read + MFAT_BLOCK_SIZE, out |-> out1]
            ELSE ReadBody(a.m, part, a.cpos, nbyte, bytes_read + MFAT_BLOCK_SIZE, out1))))

\* The tail of _mfat_read_impl: the partial last block.
\* Returns [m, ok, bytes_read, out].
ReadTail(m, cpos, nbyte, bytes_read, out) ==
    IF UGe(bytes_read, nbyte)
    THEN [m |-> m, ok |-> TRUE, bytes_read |-> bytes_read, out |-> out]
    ELSE IF _mfat_is_eoc(cpos.cluster_no)
    THEN [m |-> m, ok |-> FALSE, bytes_read |-> bytes_read, out |-> out]
    ELSE
    Let(_mfat_read_block(m, _mfat_cluster_pos_blk_no(cpos), MFAT_CACHE_DATA), LAMBDA r :
        IF ~r.ok
        THEN [m |-> r.m, ok |-> FALSE, bytes_read |-> bytes_read, out |-> out]
        ELSE [m |-> r.m, ok |-> TRUE, bytes_read |-> nbyte,
              out |-> out \o CopyOut(r.buf, 0, nbyte - bytes_read)])

\* ReadBlocks without the update of f->offset.
ReadBlocksKeepOffset(m, part, f, nbyte) ==
    Let(ReadHead(m, part, f, _mfat_cluster_pos_init_from_file(part, f), nbyte), LAMBDA h :
        IF ~h.ok THEN [m |-> h.m, ret |-> -1, f |-> f, out |-> h.out]
        ELSE
        Let(ReadBody(h.m, part, h.cpos, nbyte, h.bytes_read, h.out), LAMBDA b :
            IF ~b.ok THEN [m |-> b.m, ret |-> -1, f |-> f, out |-> b.out]
            ELSE
            Let(ReadTail(b.m, b.cpos, nbyte, b.bytes_read, b.out), LAMBDA t :
                IF ~t.ok THEN [m |-> t.m, ret |-> -1, f |-> f, out |-> t.out]
                ELSE [m   |-> t.m,
                      ret |-> t.bytes_read,
                      f   |-> [f EXCEPT !.current_cluster = b.cpos.cluster_no],
                      out |-> t.out])))

\* ReadBlocks without the update of f->current_cluster.
ReadBlocksKeepCluster(m, part, f, nbyte) ==
    Let(ReadHead(m, part, f, _mfat_cluster_pos_init_from_file(part, f), nbyte), LAMBDA h :
        IF ~h.ok THEN [m |-> h.m, ret |-> -1, f |-> f, out |-> h.out]
        ELSE
        Let(ReadBody(h.m, part, h.cpos, nbyte, h.bytes_read, h.out), LAMBDA b :
            IF ~b.ok THEN [m |-> b.m, ret |-> -1, f |-> f, out |-> b.out]
            ELSE
            Let(ReadTail(b.m, b.cpos, nbyte, b.bytes_read, b.out), LAMBDA t :
                IF ~t.ok THEN [m |-> t.m, ret |-> -1, f |-> f, out |-> t.out]
                ELSE [m   |-> t.m,
                      ret |-> t.bytes_read,
                      f   |-> [f EXCEPT !.offset = (f.offset + t.bytes_read)],
                      out |-> t.out])))

\* ReadBlocks, but a failure in the loop over the aligned blocks leaves the
\* cursor of f where the loop stopped.
ReadBlocksMoveOnFailure(m, part, f, nbyte) ==
    Let(ReadHead(m, part, f, _mfat_cluster_pos_init_from_file(part, f), nbyte), LAMBDA h :
        IF ~h.ok THEN [m |-> h.m, ret |-> -1, f |-> f, out |-> h.out]
        ELSE
        Let(ReadBody(h.m, part, h.cpos, nbyte, h.bytes_read, h.out), LAMBDA b :
            IF ~b.ok
            THEN [m |-> b.m, ret |-> -1,
                  f |-> [f EXCEPT !.current_cluster = b.cpos.cluster_no,
                                  !.offset = (f.offset + b.bytes_read)],
                  out |-> b.out]
            ELSE
            Let(ReadTail(b.m, b.cpos, nbyte, b.bytes_read, b.out), LAMBDA t :
                IF ~t.ok THEN [m |-> t.m, ret |-> -1, f |-> f, out |-> t.out]
                ELSE [m   |-> t.m,
                      ret |-> t.bytes_read,
                      f   |-> [f EXCEPT !.current_cluster = b.cpos.cluster_no,
                                        !.offset = (f.offset + t.bytes_read)],
                      out |-> t.out])))

\* The body of _mfat_read_impl once nbyte is clamped and not zero.
ReadBlocks(m, part, f, nbyte) ==
    Let(ReadHead(m, part, f, _mfat_cluster_pos_init_from_file(part, f), nbyte), LAMBDA h :
        IF ~h.ok THEN [m |-> h.m, ret |-> -1, f |-> f, out |-> h.out]
        ELSE
        Let(ReadBody(h.m, part, h.cpos, nbyte, h.bytes_read, h.out), LAMBDA b :
            IF ~b.ok THEN [m |-> b.m, ret |-> -1, f |-> f, out |-> b.out]
            ELSE
            Let(ReadTail(b.m, b.cpos, nbyte, b.bytes_read, b.out), LAMBDA t :
                IF ~t.ok THEN [m |-> t.m, ret |-> -1, f |-> f, out |-> t.out]
                ELSE [m   |-> t.m,
                      ret |-> t.bytes_read,
                      f   |-> [f EXCEPT !.current_cluster = b.cpos.cluster_no,
                                        !.offset = (f.offset + t.bytes_read)],
                      out |-> t.out])))

\* The clamp with a signed comparison of nbyte.
ClampSigned(f, nbyte) ==
    IF nbyte > f.info.size - f.offset THEN f.info.size - f.offset ELSE nbyte

\* The clamp of _mfat_read_impl left out: nbyte as requested.
NoClamp(f, nbyte) == nbyte

\* The clamp of _mfat_read_impl: nbyte after
\* if (nbyte > (f->info.size - f->offset)) nbyte = f->info.size - f->offset.
ClampedNbyte(f, nbyte) ==
    IF UGt(nbyte, f.info.size - f.offset) THEN f.info.size - f.offset ELSE nbyte

\* static int64_t _mfat_read_impl(f, buf, nbyte)
\* Returns [m, ret, f, out]: f is the file after the call, out the bytes
\* stored into the caller's buffer.
_mfat_read_impl(m, partition, f, nbyte) ==
    IF BitAnd(f.oflag, MFAT_O_RDONLY) = 0
    THEN [m |-> m, ret |-> -1, f |-> f, out |-> << >>]
    ELSE IF ClampedNbyte(f, nbyte) = 0
    THEN [m |-> m, ret |-> 0, f |-> f, out |-> << >>]
    ELSE ReadBlocks(m, partition[f.info.part_no], f, ClampedNbyte(f, nbyte))

\* A write that reports nbyte bytes written on a file open for writing.
WriteAccepted(f, nbyte) ==
    IF BitAnd(f.oflag, MFAT_O_WRONLY) = 0 THEN -1 ELSE nbyte

\* static int64_t _mfat_write_impl(f, buf, nbyte)
_mfat_write_impl(f, nbyte) ==
    IF BitAnd(f.oflag, MFAT_O_WRONLY) = 0 THEN -1 ELSE -1

\* The switch of _mfat_lseek_impl: target_offset_64 in a one-element set, the
\* empty set for an invalid whence.  (The files of the model are smaller
\* than 2^31 bytes and the offsets passed are 32-bit, so the 64-bit sums
\* are exact.)
TargetOffset64(f, offset, whence) ==
    CASE whence = MFAT_SEEK_SET -> {offset}
      [] whence = MFAT_SEEK_END -> {f.info.size + offset}
      [] whence = MFAT_SEEK_CUR -> {f.offset + offset}
      [] OTHER -> {}

RECURSIVE SeekWalkStopsEarly(_, _, _, _, _, _)
\* The loop of _mfat_lseek_impl, but a cluster that has been entered at its
\* very start is not counted: the walk stops one cluster early on a cluster
\* boundary.
SeekWalkStopsEarly(m, part, target_offset, bytes_per_cluster, current_cluster, cluster_offset) ==
    IF ~UGt(target_offset - cluster_offset, bytes_per_cluster)
    THEN [m |-> m, ok |-> TRUE, current_cluster |-> current_cluster]
    ELSE IF _mfat_is_eoc(current_cluster)
    THEN [m |-> m, ok |-> FALSE, current_cluster |-> current_cluster]
    ELSE Let(_mfat_next_cluster(m, part, current_cluster), LAMBDA nc :
             IF ~nc.ok
             THEN [m |-> nc.m, ok |-> FALSE, current_cluster |-> current_cluster]
             ELSE SeekWalkStopsEarly(nc.m, part, target_offset, bytes_per_cluster, nc.cluster,
                                     (cluster_offset + bytes_per_cluster)))

RECURSIVE SeekWalk(_, _, _, _, _, _)
\* The loop of _mfat_lseek_impl that skips along the cluster chain.
\* Returns [m, ok, current_cluster].
SeekWalk(m, part, target_offset, bytes_per_cluster, current_cluster, cluster_offset) ==
    IF ULt(target_offset - cluster_offset, bytes_per_cluster)
    THEN [m |-> m, ok |-> TRUE, current_cluster |-> current_cluster]
    ELSE IF _mfat_is_eoc(current_cluster)
    THEN [m |-> m, ok |-> FALSE, current_cluster |-> current_cluster]
    ELSE Let(_mfat_next_cluster(m, part, current_cluster), LAMBDA nc :
             IF ~nc.ok
             THEN [m |-> nc.m, ok |-> FALSE, current_cluster |-> current_cluster]
             ELSE SeekWalk(nc.m, part, target_offset, bytes_per_cluster, nc.cluster,
                           (cluster_offset + bytes_per_cluster)))

\* LseekTarget without the restart from the first cluster for a seek
\* backwards.
LseekTargetNoRewind(m, partition, f, target_offset_64) ==
    IF target_offset_64 < 0 THEN [m |-> m, ret |-> -1, f |-> f]
    ELSE IF target_offset_64 > f.info.size THEN [m |-> m, ret |-> -1, f |-> f]
    ELSE
    Let(partition[f.info.part_no].blocks_per_cluster * MFAT_BLOCK_SIZE,
        LAMBDA bytes_per_cluster :
    Let(f.offset - (f.offset % bytes_per_cluster), LAMBDA cluster_offset :
    Let(SeekWalk(m, partition[f.info.part_no], target_offset_64, bytes_per_cluster,
                 f.current_cluster, cluster_offset), LAMBDA w :
        IF ~w.ok THEN [m |-> w.m, ret |-> -1, f |-> f]
        ELSE [m   |-> w.m,
              ret |-> target_offset_64,
              f   |-> [f EXCEPT !.offset = target_offset_64,
                                !.current_cluster = w.current_cluster]])))

\* LseekTarget without the check against the size of the file.
LseekTargetNoUpper(m, partition, f, target_offset_64) ==
    IF target_offset_64 < 0 THEN [m |-> m, ret |-> -1, f |-> f]
    ELSE
    Let(partition[f.info.part_no].blocks_per_cluster * MFAT_BLOCK_SIZE,
        LAMBDA bytes_per_cluster :
    Let(f.offset - (f.offset % bytes_per_cluster), LAMBDA cluster_offset :
    Let(IF ULt(target_offset_64, cluster_offset)
        THEN SeekWalk(m, partition[f.info.part_no], target_offset_64, bytes_per_cluster,
                      f.info.first_cluster, 0)
        ELSE SeekWalk(m, partition[f.info.part_no], target_offset_64, bytes_per_cluster,
                      f.current_cluster, cluster_offset), LAMBDA w :
        IF ~w.ok THEN [m |-> w.m, ret |-> -1, f |-> f]
        ELSE [m   |-> w.m,
              ret |-> target_offset_64,
              f   |-> [f EXCEPT !.offset = target_offset_64,
                                !.current_cluster = w.current_cluster]])))

\* _mfat_lseek_impl after the switch, for the value target_offset_64 of
\* TargetOffset64.  Returns [m, ret, f].
LseekTarget(m, partition, f, target_offset_64) ==
    IF target_offset_64 < 0 THEN [m |-> m, ret |-> -1, f |-> f]
    ELSE IF target_offset_64 > f.info.size THEN [m |-> m, ret |-> -1, f |-> f]
    ELSE
    Let(partition[f.info.part_no].blocks_per_cluster * MFAT_BLOCK_SIZE,
        LAMBDA bytes_per_cluster :
    Let(f.offset - (f.offset % bytes_per_cluster), LAMBDA cluster_offset :
    Let(IF ULt(target_offset_64, cluster_offset)
        THEN SeekWalk(m, partition[f.info.part_no], target_offset_64, bytes_per_cluster,
                      f.info.first_cluster, 0)
        ELSE SeekWalk(m, partition[f.info.part_no], target_offset_64, bytes_per_cluster,
                      f.current_cluster, cluster_offset), LAMBDA w :
        IF ~w.ok THEN [m |-> w.m, ret |-> -1, f |-> f]
        ELSE [m   |-> w.m,
              ret |-> target_offset_64,
              f   |-> [f EXCEPT !.offset = target_offset_64,
                                !.current_cluster = w.current_cluster]])))

\* static int64_t _mfat_lseek_impl(f, offset, whence).  Returns [m, ret, f].
_mfat_lseek_impl(m, partition, f, offset, whence) ==
    IF TargetOffset64(f, offset, whence) = {}
    THEN [m |-> m, ret |-> -1, f |-> f]
    ELSE LseekTarget(m, partition, f,
                     CHOOSE t \in TargetOffset64(f, offset, whence) : TRUE)

(***************************************************************************)
(* Partition tables and the BIOS Parameter Block (mfat_mount).             *)
(***************************************************************************)
PartIds == 0 .. MFAT_NUM_PARTITIONS - 1

\* memset(&s_ctx.partition[i], 0, sizeof(mfat_partition_t))
ZeroPartition ==
    [type |-> MFAT_TYPE_UNKNOWN, first_block |-> 0, num_blocks |-> 0,
     blocks_per_cluster |-> 0, num_clusters |-> 0, blocks_per_fat |-> 0,
     num_fats |-> 0, num_reserved_blocks |-> 0, root_dir_block |-> 0,
     blocks_in_root_dir |-> 0, root_dir_cluster |-> 0, first_data_block |-> 0,
     boot |-> FALSE]

\* static mfat_bool_t _mfat_is_fat_part_id(uint32_t id)
_mfat_is_fat_part_id(id) ==
    id \in {MFAT_PART_ID_FAT16_LT32GB, MFAT_PART_ID_FAT16_GT32GB,
            MFAT_PART_ID_FAT16_GT32GB_LBA, MFAT_PART_ID_FAT32, MFAT_PART_ID_FAT32_LBA}

\* The Windows basic data partition GUID, in on-disk byte order.
BDP_GUID == << 162, 160, 208, 235, 229, 185, 51, 68, 135, 192, 104, 182, 183, 38, 153, 199 >>

\* static mfat_bool_t _mfat_is_fat_part_guid(const uint8_t* guid), guid = &buf[o]
_mfat_is_fat_part_guid(buf, o) == _mfat_cmpbuf(buf, o, BDP_GUID, 0, 16)

\* _mfat_is_valid_bpb without the test of the 55 AA signature.
ValidBpbAnySignature(bpb_buf) ==
    IF Byte(bpb_buf, 0) # 233 /\ ~(Byte(bpb_buf, 0) = 235 /\ Byte(bpb_buf, 2) = 144) THEN FALSE
    ELSE _mfat_get_word(bpb_buf, 11) \in {512, 1024, 2048, 4096}

\* static mfat_bool_t _mfat_is_valid_bpb(const uint8_t* bpb_buf)
_mfat_is_valid_bpb(bpb_buf) ==
    IF Byte(bpb_buf, 510) # 85 \/ Byte(bpb_buf, 511) # 170 THEN FALSE
    ELSE IF Byte(bpb_buf, 0) # 233 /\ ~(Byte(bpb_buf, 0) = 235 /\ Byte(bpb_buf, 2) = 144) THEN FALSE
    ELSE _mfat_get_word(bpb_buf, 11) \in {512, 1024, 2048, 4096}

\* "EFI PART"
GptSig == << 69, 70, 73, 32, 80, 65, 82, 84 >>

\* The partition record the loop of _mfat_decode_gpt stores for the entry at
\* &buf[offs].
GptEntry(part, buf, offs) ==
    [part EXCEPT
        !.first_block = _mfat_get_dword(buf, offs + 32),
        !.boot = BitAnd(Byte(buf, offs + 48), 4) # 0,
        !.type = IF _mfat_is_fat_part_guid(buf, offs) THEN MFAT_TYPE_FAT_UNDECIDED ELSE @]

RECURSIVE GptEntries(_, _, _, _, _, _, _, _)
\* The loop of _mfat_decode_gpt over the partition entries, from entry i on.
\* Returns [m, ok, partition].
GptEntries(m, partition, buf, i, num_entries, entry_size, entries_block, entry_offs) ==
    IF ~(ULt(i, num_entries) /\ i < MFAT_NUM_PARTITIONS)
    THEN [m |-> m, ok |-> TRUE, partition |-> partition]
    ELSE IF (entry_offs % MFAT_BLOCK_SIZE) = 0
    THEN Let(_mfat_read_block(m, entries_block, MFAT_CACHE_DATA), LAMBDA r :
             IF ~r.ok THEN [m |-> r.m, ok |-> FALSE, partition |-> partition]
             ELSE GptEntries(r.m, [partition EXCEPT ![i] = GptEntry(@, r.buf, 0)], r.buf,
                             i + 1, num_entries, entry_size, entries_block + 1, entry_size))
    ELSE GptEntries(m, [partition EXCEPT ![i] = GptEntry(@, buf, entry_offs)], buf,
                    i + 1, num_entries, entry_size, entries_block, entry_offs + entry_size)

\* static mfat_bool_t _mfat_decode_gpt(void).  Returns [m, ok, partition].
_mfat_decode_gpt(m, partition) ==
    Let(_mfat_read_block(m, 1, MFAT_CACHE_DATA), LAMBDA r :
        IF ~r.ok THEN [m |-> r.m, ok |-> FALSE, partition |-> partition]
        ELSE IF ~_mfat_cmpbuf(r.buf, 0, GptSig, 0, 8)
        THEN [m |-> r.m, ok |-> FALSE, partition |-> partition]
        ELSE GptEntries(r.m, partition, r.buf, 0, _mfat_get_dword(r.buf, 80),
                        _mfat_get_dword(r.buf, 84), _mfat_get_dword(r.buf, 72), 0))

\* The partition record the loop of _mfat_decode_mbr stores for the entry at
\* &buf[e].
MbrPart(part, buf, e) ==
    [part EXCEPT
        !.boot = BitAnd(Byte(buf, e), 128) # 0,
        !.type = IF _mfat_is_fat_part_id(Byte(buf, e + 4)) THEN MFAT_TYPE_FAT_UNDECIDED ELSE @,
        !.first_block = _mfat_get_dword(buf, e + 8)]

RECURSIVE MbrEntries(_, _, _, _)
\* The loop of _mfat_decode_mbr over the four partition entries, from entry i
\* on.  Returns [partition, found_valid_mbr].
MbrEntries(partition, buf, i, found) ==
    IF ~(i < 4 /\ i < MFAT_NUM_PARTITIONS)
    THEN [partition |-> partition, found_valid_mbr |-> found]
    ELSE MbrEntries([partition EXCEPT ![i] = MbrPart(@, buf, 446 + 16 * i)], buf, i + 1,
                    found \/ _mfat_is_fat_part_id(Byte(buf, 446 + 16 * i + 4)))

\* static mfat_bool_t _mfat_decode_mbr(void).  Returns [m, ok, partition].
_mfat_decode_mbr(m, partition) ==
    Let(_mfat_read_block(m, 0, MFAT_CACHE_DATA), LAMBDA r :
        IF ~r.ok THEN [m |-> r.m, ok |-> FALSE, partition |-> partition]
        ELSE IF Byte(r.buf, 510) = 85 /\ Byte(r.buf, 511) = 170
        THEN Let(MbrEntries(partition, r.buf, 0, FALSE), LAMBDA e :
                 [m |-> r.m, ok |-> e.found_valid_mbr, partition |-> e.partition])
        ELSE [m |-> r.m, ok |-> FALSE, partition |-> partition])

\* static void _mfat_decode_tableless(void)
_mfat_decode_tableless ==
    [i \in PartIds |->
        IF i = 0 THEN [ZeroPartition EXCEPT !.type = MFAT_TYPE_FAT_UNDECIDED]
        ELSE ZeroPartition]

\* The fields the BPB loop reads from the BPB block buf into the partition.
BpbFields(part, buf) ==
    [part EXCEPT
        !.blocks_per_cluster = Byte(buf, 13),
        !.num_reserved_blocks = _mfat_get_word(buf, 14),
        !.num_fats = Byte(buf, 16),
        !.num_blocks = IF _mfat_get_word(buf, 19) # 0 THEN _mfat_get_word(buf, 19)
                       ELSE _mfat_get_dword(buf, 32),
        !.blocks_per_fat = IF _mfat_get_word(buf, 22) # 0 THEN _mfat_get_word(buf, 22)
                           ELSE _mfat_get_dword(buf, 36),
        !.blocks_in_root_dir =
            ((_mfat_get_word(buf, 17) * 32) + (MFAT_BLOCK_SIZE - 1)) \div MFAT_BLOCK_SIZE]

\* The BPB in buf takes the BPB loop to the division data_sectors /
\* part->blocks_per_cluster with blocks_per_cluster = 0.
DividesByZero(buf) ==
    /\ _mfat_is_valid_bpb(buf)
    /\ _mfat_get_word(buf, 11) = MFAT_BLOCK_SIZE
    /\ Byte(buf, 13) = 0

\* What the division of a uint32_t by zero, which C leaves undefined, does
\* in a build: it traps (x86), or it yields 0 (ARM) or 0xFFFFFFFF (RISC-V).
DivByZero ==
    {[trap |-> TRUE, q |-> 0], [trap |-> FALSE, q |-> 0], [trap |-> FALSE, q |-> -1]}

\* The classification at the end of the BPB loop's body, for the partition p
\* with its first_data_block set; q is the quotient of a division by zero.
BpbClassify(p, buf, q) ==
    Let(IF p.blocks_per_cluster = 0 THEN q
        ELSE UDiv(p.num_blocks - (p.num_reserved_blocks + (p.num_fats * p.blocks_per_fat)
                                     + p.blocks_in_root_dir), p.blocks_per_cluster),
        LAMBDA count_of_clusters :
        IF ULt(count_of_clusters, 4085)
        THEN [p EXCEPT !.num_clusters = count_of_clusters + 1, !.type = MFAT_TYPE_UNKNOWN]
        ELSE IF ULt(count_of_clusters, 65525)
        THEN [p EXCEPT !.num_clusters = count_of_clusters + 1,
                       !.type = MFAT_TYPE_FAT16,
                       !.root_dir_block = p.first_data_block - p.blocks_in_root_dir]
        ELSE [p EXCEPT !.num_clusters = count_of_clusters + 1,
                       !.type = MFAT_TYPE_FAT32,
                       !.root_dir_cluster = _mfat_get_dword(buf, 44)])

\* The body of the BPB loop of _mfat_decode_partition_tables for one
\* partition whose BPB block buf was read: the partition record afterwards.
DecodeBpb(part, buf, q) ==
    IF ~_mfat_is_valid_bpb(buf) THEN [part EXCEPT !.type = MFAT_TYPE_UNKNOWN]
    ELSE
    Let(BpbFields(part, buf), LAMBDA p1 :
    Let([p1 EXCEPT !.first_data_block = p1.first_block + p1.num_reserved_blocks
                       + (p1.num_fats * p1.blocks_per_fat) + p1.blocks_in_root_dir],
        LAMBDA p2 :
        IF _mfat_get_word(buf, 11) # MFAT_BLOCK_SIZE
        THEN [p2 EXCEPT !.type = MFAT_TYPE_UNKNOWN]
        ELSE BpbClassify(p2, buf, q)))

RECURSIVE BpbLoop(_, _, _)
\* The BPB loop of _mfat_decode_partition_tables, from partition i on.
\* Returns [m, ok, partition]; a division that traps ends the run of the
\* program inside the loop (m.trapped).
BpbLoop(m, partition, i) ==
    IF i >= MFAT_NUM_PARTITIONS THEN [m |-> m, ok |-> TRUE, partition |-> partition]
    ELSE IF partition[i].type = MFAT_TYPE_UNKNOWN THEN BpbLoop(m, partition, i + 1)
    ELSE Let(_mfat_read_block(m, partition[i].first_block, MFAT_CACHE_DATA), LAMBDA r :
             IF ~r.ok THEN [m |-> r.m, ok |-> FALSE, partition |-> partition]
             ELSE IF DividesByZero(r.buf) /\ m.divz.trap
             THEN [m |-> [r.m EXCEPT !.trapped = TRUE], ok |-> FALSE,
                   partition |-> partition]
             ELSE BpbLoop(r.m, [partition EXCEPT ![i] = DecodeBpb(@, r.buf, m.divz.q)],
                          i + 1))

\* static mfat_bool_t _mfat_decode_partition_tables(void)
\* Returns [m, ok, partition].
_mfat_decode_partition_tables(m, partition) ==
    Let(_mfat_decode_gpt(m, partition), LAMBDA g :
    Let(IF g.ok THEN g ELSE _mfat_decode_mbr(g.m, g.partition), LAMBDA b :
        IF b.ok THEN BpbLoop(b.m, b.partition, 0)
        ELSE BpbLoop(b.m, _mfat_decode_tableless, 0)))

\* The selection loop of mfat_mount without the preference for a bootable
\* partition: the first partition of a supported type.
PickFirstFat(partition, i, first_boot_partition, active_partition) ==
    IF \E k \in PartIds : partition[k].type # MFAT_TYPE_UNKNOWN
    THEN CHOOSE k \in PartIds :
             /\ partition[k].type # MFAT_TYPE_UNKNOWN
             /\ \A j \in 0 .. k - 1 : partition[j].type = MFAT_TYPE_UNKNOWN
    ELSE -1

RECURSIVE PickPartition(_, _, _, _)
\* The loop of mfat_mount that selects the active partition, from i on.
PickPartition(partition, i, first_boot_partition, active_partition) ==
    IF i >= MFAT_NUM_PARTITIONS THEN active_partition
    ELSE IF partition[i].type # MFAT_TYPE_UNKNOWN
    THEN IF partition[i].boot /\ first_boot_partition < 0
         THEN PickPartition(partition, i + 1, i, i)
         ELSE IF active_partition < 0
         THEN PickPartition(partition, i + 1, first_boot_partition, i)
         ELSE PickPartition(partition, i + 1, first_boot_partition, active_partition)
    ELSE PickPartition(partition, i + 1, first_boot_partition, active_partition)

(***************************************************************************)
(* Path resolution.  A path is a sequence of character codes; the C        *)
(* string's terminating NUL is the code 0 read past its end.               *)
(***************************************************************************)
\* path[pos] of the C string (pos counts from 0).
PathChar(path, pos) == IF pos < Len(path) THEN path[pos + 1] ELSE 0

\* The characters _mfat_canonicalize_char keeps besides A-Z and 0-9:
\* $ % - _ @ ~ ` ! ( ) { } ^ # &
KeptChars == {36, 37, 45, 95, 64, 126, 96, 33, 40, 41, 123, 125, 94, 35, 38}

\* _mfat_canonicalize_char, but a space stays a space.
CanonCharKeepsSpace(c) ==
    IF (c >= 65 /\ c <= 90) \/ (c >= 48 /\ c <= 57) \/ c \in KeptChars \/ c = 32
    THEN c
    ELSE IF c >= 97 /\ c <= 122 THEN c - 97 + 65
    ELSE 33

\* static int _mfat_canonicalize_char(int c)
_mfat_canonicalize_char(c) ==
    IF (c >= 65 /\ c <= 90) \/ (c >= 48 /\ c <= 57) \/ c \in KeptChars
    THEN c
    ELSE IF c >= 97 /\ c <= 122 THEN c - 97 + 65
    ELSE 33

RECURSIVE CanonName(_, _, _)
\* The loop of _mfat_canonicalize_fname that extracts the name part.
\* Returns [name, c, pos]: c is the character that ended the part.
CanonName(path, pos, name) ==
    IF PathChar(path, pos) \in {0, 46, 47, 92}
    THEN [name |-> name, c |-> PathChar(path, pos), pos |-> pos + 1]
    ELSE CanonName(path, pos + 1,
                   IF Len(name) < 8
                   THEN Append(name, _mfat_canonicalize_char(PathChar(path, pos)))
                   ELSE name)

RECURSIVE CanonExt(_, _, _)
\* The loop of _mfat_canonicalize_fname that extracts the extension part.
CanonExt(path, pos, name) ==
    IF PathChar(path, pos) \in {0, 47, 92}
    THEN [name |-> name, c |-> PathChar(path, pos), pos |-> pos + 1]
    ELSE CanonExt(path, pos + 1,
                  IF Len(name) < 11
                  THEN Append(name, _mfat_canonicalize_char(PathChar(path, pos)))
                  ELSE name)

RECURSIVE SpaceFill(_, _)
\* Space-fill name up to n characters.
SpaceFill(name, n) == IF Len(name) >= n THEN name ELSE SpaceFill(Append(name, 32), n)

Spaces11 == << 32, 32, 32, 32, 32, 32, 32, 32, 32, 32, 32 >>

RECURSIVE CanonLoop(_, _)
\* The do-while loop of _mfat_canonicalize_fname, one pass from next_idx.
CanonLoop(path, next_idx) ==
    Let(CanonName(path, next_idx, << >>), LAMBDA n :
    Let(IF n.c = 46 THEN CanonExt(path, n.pos, SpaceFill(n.name, 8))
        ELSE [name |-> SpaceFill(n.name, 8), c |-> n.c, pos |-> n.pos], LAMBDA e :
    Let(SpaceFill(e.name, 11), LAMBDA name :
    Let(IF (e.c = 47 \/ e.c = 92) /\ PathChar(path, e.pos) # 0 THEN e.pos ELSE -1,
        LAMBDA next :
        IF next >= 0 /\ _mfat_cmpbuf(name, 0, Spaces11, 0, 11)
        THEN CanonLoop(path, next)
        ELSE [name |-> name, next_idx |-> next]))))

\* static int _mfat_canonicalize_fname(const char* path, char name[12]), with
\* path = &whole[path_pos].  Returns [name, next_idx], next_idx relative to
\* path_pos as in the code.
_mfat_canonicalize_fname(whole, path_pos) ==
    CanonLoop(SubSeq(whole, path_pos + 1, Len(whole)), 0)

RECURSIVE ScanBlock(_, _, _)
\* The loop of _mfat_find_file over the 16 entries of a directory block.
\* Returns [end, found, offs]: end for a 0x00 entry, found for a name match.
ScanBlock(buf, fname, offs) ==
    IF offs >= 512 THEN [end |-> FALSE, found |-> FALSE, offs |-> offs]
    ELSE IF Byte(buf, offs) = 0 THEN [end |-> TRUE, found |-> FALSE, offs |-> offs]
    ELSE IF _mfat_cmpbuf(buf, offs, fname, 0, 11)
    THEN [end |-> FALSE, found |-> TRUE, offs |-> offs]
    ELSE ScanBlock(buf, fname, offs + 32)

\* The result of the for loop of _mfat_find_file (see FindInDir).
DirResult(m, st, no_more_entries, cpos, blocks_left, buf, offs, blk_no) ==
    [m |-> m, st |-> st, no_more_entries |-> no_more_entries, cpos |-> cpos,
     blocks_left |-> blocks_left, buf |-> buf, offs |-> offs, blk_no |-> blk_no]

\* "Go to the next block in the directory".  Returns [m, ok, cpos].
NextDirBlock(m, cpos, part) ==
    IF cpos.cluster_no # 0 THEN _mfat_cluster_pos_advance(m, cpos, part)
    ELSE [m |-> m, ok |-> TRUE, cpos |-> [cpos EXCEPT !.block_in_cluster = @ + 1]]

\* (found_entry[20..21] << 16) | found_entry[26..27]
EntryCluster(buf, offs) ==
    BitOr(_mfat_get_word(buf, offs + 20) * 65536, _mfat_get_word(buf, offs + 26))

RECURSIVE FindInDir(_, _, _, _, _, _)
\* The for loop of _mfat_find_file that looks one name up in one directory.
\* Returns [m, st, no_more_entries, cpos, blocks_left, buf, offs, blk_no]
\* where st is
\*   "false"  : return false (block read failed, not a directory, chain error),
\*   "file"   : file_entry was set to &buf[offs] of block blk_no,
\*   "next"   : the loop ended otherwise (descended, end of directory, or
\*              blocks_left exhausted); no_more_entries tells which.
FindInDir(m, part, fname, is_parent_dir, cpos, blocks_left) ==
    IF blocks_left = 0
    THEN DirResult(m, "next", FALSE, cpos, blocks_left, ZeroBlock, 0, 0)
    ELSE
    Let(_mfat_read_block(m, _mfat_cluster_pos_blk_no(cpos), MFAT_CACHE_DATA), LAMBDA r :
        IF ~r.ok THEN DirResult(r.m, "false", FALSE, cpos, blocks_left, ZeroBlock, 0, 0)
        ELSE
        Let(ScanBlock(r.buf, fname, 0), LAMBDA sc :
            IF sc.found
            THEN IF is_parent_dir
                 THEN IF BitAnd(Byte(r.buf, sc.offs + 11), MFAT_ATTR_DIRECTORY) = 0
                      THEN DirResult(r.m, "false", FALSE, cpos, blocks_left, ZeroBlock, 0, 0)
                      ELSE DirResult(r.m, "next", FALSE,
                                     _mfat_cluster_pos_init(part, EntryCluster(r.buf, sc.offs), 0),
                                     -1, r.buf, sc.offs, _mfat_cluster_pos_blk_no(cpos))
                 ELSE DirResult(r.m, "file", FALSE, cpos, blocks_left, r.buf, sc.offs,
                                _mfat_cluster_pos_blk_no(cpos))
            ELSE
            Let(NextDirBlock(r.m, cpos, part), LAMBDA a :
                IF ~a.ok
                THEN DirResult(a.m, "false", FALSE, cpos, blocks_left, ZeroBlock, 0, 0)
                ELSE IF sc.end
                THEN DirResult(a.m, "next", TRUE, a.cpos, blocks_left + 1, r.buf, 0,
                               _mfat_cluster_pos_blk_no(cpos))
                ELSE FindInDir(a.m, part, fname, is_parent_dir, a.cpos, blocks_left + 1))))

RECURSIVE FindPath(_, _, _, _, _, _)
\* The while loop of _mfat_find_file over the parts of the path.
\* Returns [m, found, buf, offs, blk_no]: found when file_entry is not NULL.
FindPath(m, part, path, path_pos, cpos, blocks_left) ==
    Let(_mfat_canonicalize_fname(path, path_pos), LAMBDA cn :
    Let(FindInDir(m, part, cn.name, cn.next_idx >= 0, cpos,
                  IF cpos.cluster_no # 0 THEN -1 ELSE blocks_left), LAMBDA d :
        IF d.st = "false"
        THEN [m |-> d.m, found |-> FALSE, buf |-> ZeroBlock, offs |-> 0, blk_no |-> 0]
        ELSE IF d.st = "file"
        THEN [m |-> d.m, found |-> TRUE, buf |-> d.buf, offs |-> d.offs, blk_no |-> d.blk_no]
        ELSE IF d.no_more_entries \/ cn.next_idx < 0
        THEN [m |-> d.m, found |-> FALSE, buf |-> ZeroBlock, offs |-> 0, blk_no |-> 0]
        ELSE FindPath(d.m, part, path, path_pos + cn.next_idx, d.cpos, d.blocks_left)))

\* memset of one mfat_file_info_t
ZeroInfo ==
    [part_no |-> 0, size |-> 0, first_cluster |-> 0, dir_entry_block |-> 0,
     dir_entry_offset |-> 0]

\* The start of _mfat_find_file: the cursor at the root directory.
RootPos(part) ==
    IF part.type = MFAT_TYPE_FAT32
    THEN _mfat_cluster_pos_init(part, part.root_dir_cluster, 0)
    ELSE [cluster_no |-> 0, cluster_start_blk |-> part.root_dir_block,
          block_in_cluster |-> 0]

\* static mfat_bool_t _mfat_find_file(part_no, path, info, is_dir, exists)
\* Returns [m, ok, info, is_dir, exists]; info is meaningful when ok.
_mfat_find_file(m, partition, part_no, path) ==
    Let(FindPath(m, partition[part_no], path, 0, RootPos(partition[part_no]),
                 IF partition[part_no].type = MFAT_TYPE_FAT32 THEN -1
                 ELSE partition[part_no].blocks_in_root_dir), LAMBDA r :
        IF ~r.found
        THEN [m |-> r.m, ok |-> FALSE, info |-> ZeroInfo, is_dir |-> FALSE,
              exists |-> FALSE]
        ELSE
        Let([part_no |-> part_no,
             size |-> _mfat_get_dword(r.buf, r.offs + 28),
             first_cluster |-> EntryCluster(r.buf, r.offs),
             dir_entry_block |-> r.blk_no,
             dir_entry_offset |-> r.offs], LAMBDA info :
            IF Byte(r.buf, r.offs) # 0 /\ Byte(r.buf, r.offs) # 229
            THEN [m |-> r.m, ok |-> TRUE, info |-> info,
                  is_dir |-> BitAnd(Byte(r.buf, r.offs + 11), MFAT_ATTR_DIRECTORY) # 0,
                  exists |-> TRUE]
            ELSE [m |-> r.m, ok |-> TRUE, info |-> info, is_dir |-> FALSE,
                  exists |-> FALSE]))

(***************************************************************************)
(* sync, stat, open and close.                                             *)
(***************************************************************************)
FdIds == 0 .. MFAT_NUM_FDS - 1

RECURSIVE SyncLoop(_, _, _)
\* The loops of _mfat_sync_impl, from block i of cache j on.
SyncLoop(m, j, i) ==
    IF j >= MFAT_NUM_CACHES THEN m
    ELSE IF i >= MFAT_NUM_CACHED_BLOCKS THEN SyncLoop(m, j + 1, 0)
    ELSE IF m.cache[j].block[i].state = MFAT_DIRTY
    THEN Let(DevWrite(m, m.cache[j].block[i].buf, m.cache[j].block[i].blk_no), LAMBDA w :
             SyncLoop([w.m EXCEPT !.cache[j].block[i].state = MFAT_VALID], j, i + 1))
    ELSE SyncLoop(m, j, i + 1)

\* static void _mfat_sync_impl()
_mfat_sync_impl(m) == SyncLoop(m, 0, 0)

\* The st_mode of _mfat_dir_entry_to_stat with the write bits set whatever
\* the read-only attribute.
StModeAlwaysWritable(attr) ==
    MFAT_S_IRUSR + MFAT_S_IRGRP + MFAT_S_IROTH + MFAT_S_IXUSR + MFAT_S_IXGRP + MFAT_S_IXOTH
    + MFAT_S_IWUSR + MFAT_S_IWGRP + MFAT_S_IWOTH
    + (IF BitAnd(attr, MFAT_ATTR_DIRECTORY) # 0 THEN MFAT_S_IFDIR ELSE MFAT_S_IFREG)

\* The st_mode _mfat_dir_entry_to_stat computes from the attribute byte.
StMode(attr) ==
    MFAT_S_IRUSR + MFAT_S_IRGRP + MFAT_S_IROTH + MFAT_S_IXUSR + MFAT_S_IXGRP + MFAT_S_IXOTH
    + (IF BitAnd(attr, MFAT_ATTR_READ_ONLY) = 0
       THEN MFAT_S_IWUSR + MFAT_S_IWGRP + MFAT_S_IWOTH ELSE 0)
    + (IF BitAnd(attr, MFAT_ATTR_DIRECTORY) # 0 THEN MFAT_S_IFDIR ELSE MFAT_S_IFREG)

\* The st_mtim _mfat_dir_entry_to_stat computes from the time and date words.
StMtim(time, date) ==
    [year   |-> (date \div 512) + 1980,
     month  |-> (date \div 32) % 16,
     day    |-> date % 32,
     hour   |-> time \div 2048,
     minute |-> (time \div 32) % 64,
     second |-> (time % 32) * 2]

\* static void _mfat_dir_entry_to_stat(uint8_t* dir_entry, mfat_stat_t* stat),
\* dir_entry = &buf[o]
_mfat_dir_entry_to_stat(buf, o) ==
    [st_mode |-> StMode(Byte(buf, o + 11)),
     st_size |-> _mfat_get_dword(buf, o + 28),
     st_mtim |-> StMtim(_mfat_get_word(buf, o + 22), _mfat_get_word(buf, o + 24))]

\* The content of *stat when a call does not store into it.
NoStat ==
    [st_mode |-> 0, st_size |-> 0,
     st_mtim |-> [year |-> 0, month |-> 0, day |-> 0, hour |-> 0, minute |-> 0,
                  second |-> 0]]

\* static int _mfat_fstat_impl(mfat_file_info_t* info, mfat_stat_t* stat)
\* Returns [m, ret, stat].
_mfat_fstat_impl(m, info) ==
    Let(_mfat_read_block(m, info.dir_entry_block, MFAT_CACHE_DATA), LAMBDA r :
        IF ~r.ok THEN [m |-> r.m, ret |-> -1, stat |-> NoStat]
        ELSE [m |-> r.m, ret |-> 0,
              stat |-> _mfat_dir_entry_to_stat(r.buf, info.dir_entry_offset)])

\* static int _mfat_stat_impl(const char* path, mfat_stat_t* stat)
_mfat_stat_impl(m, partition, active_partition, path) ==
    Let(_mfat_find_file(m, partition, active_partition, path), LAMBDA ff :
        IF ~ff.ok \/ ~ff.exists THEN [m |-> ff.m, ret |-> -1, stat |-> NoStat]
        ELSE _mfat_fstat_impl(ff.m, ff.info))

\* The search for a free fd from the highest slot downwards.
LastFreeFd(file) ==
    IF \A fd \in 0 .. MFAT_NUM_FDS - 1 : file[fd].open THEN MFAT_NUM_FDS
    ELSE CHOOSE fd \in 0 .. MFAT_NUM_FDS - 1 :
             ~file[fd].open /\ \A g \in fd + 1 .. MFAT_NUM_FDS - 1 : file[g].open

\* The first loop of _mfat_open_impl: the lowest fd that is not open, or
\* MFAT_NUM_FDS.
NextFreeFd(file) ==
    IF \A fd \in FdIds : file[fd].open THEN MFAT_NUM_FDS
    ELSE CHOOSE fd \in FdIds : ~file[fd].open /\ \A g \in 0 .. fd - 1 : file[g].open

\* OpenAt without the check that the entry found is no directory.
OpenAtAnyEntry(m, partition, active_partition, file, path, oflag, fd) ==
    Let(_mfat_find_file(m, partition, active_partition, path), LAMBDA ff :
        IF ~ff.ok THEN [m |-> ff.m, ret |-> -1, file |-> file]
        ELSE IF ~ff.exists
        THEN [m |-> ff.m, ret |-> -1, file |-> [file EXCEPT ![fd].info = ff.info]]
        ELSE [m |-> ff.m, ret |-> fd,
              file |-> [file EXCEPT ![fd].info = ff.info,
                                    ![fd].open = TRUE,
                                    ![fd].oflag = oflag,
                                    ![fd].current_cluster = ff.info.first_cluster,
                                    ![fd].offset = 0]])

\* _mfat_open_impl once the free slot fd is known.
OpenAt(m, partition, active_partition, file, path, oflag, fd) ==
    Let(_mfat_find_file(m, partition, active_partition, path), LAMBDA ff :
        IF ~ff.ok THEN [m |-> ff.m, ret |-> -1, file |-> file]
        ELSE IF ff.is_dir \/ ~ff.exists
        THEN [m |-> ff.m, ret |-> -1, file |-> [file EXCEPT ![fd].info = ff.info]]
        ELSE [m |-> ff.m, ret |-> fd,
              file |-> [file EXCEPT ![fd].info = ff.info,
                                    ![fd].open = TRUE,
                                    ![fd].oflag = oflag,
                                    ![fd].current_cluster = ff.info.first_cluster,
                                    ![fd].offset = 0]])

\* static int _mfat_open_impl(const char* path, int oflag)
\* Returns [m, ret, file]: file is s_ctx.file after the call.
_mfat_open_impl(m, partition, active_partition, file, path, oflag) ==
    IF NextFreeFd(file) >= MFAT_NUM_FDS THEN [m |-> m, ret |-> -1, file |-> file]
    ELSE OpenAt(m, partition, active_partition, file, path, oflag, NextFreeFd(file))

\* static int _mfat_close_impl(mfat_file_t* f).  Returns [m, ret, f].
_mfat_close_impl(m, f) ==
    [m   |-> IF BitAnd(f.oflag, MFAT_O_WRONLY) # 0 THEN _mfat_sync_impl(m) ELSE m,
     ret |-> 0,
     f   |-> [f EXCEPT !.open = FALSE]]

\* _mfat_get_file without the test of the open flag.
GetFileInRange(file, fd) ==
    IF fd < 0 \/ fd >= MFAT_NUM_FDS THEN FALSE
    ELSE TRUE

\* static mfat_file_t* _mfat_get_file(int fd): TRUE when the result is not
\* NULL (the file is then file[fd]).
_mfat_get_file(file, fd) ==
    IF fd < 0 \/ fd >= MFAT_NUM_FDS THEN FALSE
    ELSE file[fd].open

(***************************************************************************)
(* The state: the static context s_ctx, the device, and the last call.     *)
(***************************************************************************)
VARIABLES
    initialized,        \* s_ctx.initialized
    active_partition,   \* s_ctx.active_partition
    partition,          \* s_ctx.partition[MFAT_NUM_PARTITIONS]
    file,               \* s_ctx.file[MFAT_NUM_FDS]
    cache,              \* s_ctx.cache[MFAT_NUM_CACHES]
    dev,                \* s_ctx.read / write / custom: the device (0: NULL)
    wlog,               \* the blocks the write callback has stored
    last                \* the last API call, its arguments and its results

vars == << initialized, active_partition, partition, file, cache, dev, wlog, last >>

\* A NULL path argument.
NullPath == << -1 >>

\* memset of one mfat_file_t
ZeroFile ==
    [open |-> FALSE, oflag |-> 0, offset |-> 0, current_cluster |-> 0,
     info |-> [part_no |-> 0, size |-> 0, first_cluster |-> 0, dir_entry_block |-> 0,
               dir_entry_offset |-> 0]]

\* memset of one mfat_cache_t
ZeroCache ==
    [block |-> [i \in CacheIds |-> [state |-> MFAT_INVALID, blk_no |-> 0, buf |-> ZeroBlock]],
     pri   |-> [i \in CacheIds |-> 0]]

\* The record of a call: op and its arguments (fd, arg, whence, path), the
\* value returned (ret), the bytes stored into the caller's buffer (out), the
\* stat structure stored (stat), the blocks the read callback was invoked
\* for (rlog), the number of write callback invocations (nwrite) and whether
\* a callback invocation returned -1 (failed).
Call(op, fd, arg, whence, path, ret, out, stat, rlog, nwrite, failed) ==
    [op |-> op, fd |-> fd, arg |-> arg, whence |-> whence, path |-> path, ret |-> ret,
     out |-> out, stat |-> stat, rlog |-> rlog, nwrite |-> nwrite, failed |-> failed]

\* The machine a call starts on; fail tells which callback invocation fails.
Machine(fail) ==
    [dev |-> dev, fail |-> fail, n |-> 0, rlog |-> << >>, wlog |-> wlog, cache |-> cache]

\* The static context is zero-initialised.
Init ==
    /\ initialized = FALSE
    /\ active_partition = 0
    /\ partition = [i \in PartIds |-> ZeroPartition]
    /\ file = [fd \in FdIds |-> ZeroFile]
    /\ cache = [j \in 0 .. MFAT_NUM_CACHES - 1 |-> ZeroCache]
    /\ dev = 0
    /\ wlog = << >>
    /\ last = Call("init", -1, 0, 0, << >>, 0, << >>, NoStat, << >>, 0, FALSE)

(***************************************************************************)
(* The public functions, as the result of a call in the current state:     *)
(* [m, ret, ...] with the fields of s_ctx the call may change.             *)
(***************************************************************************)
\* The machine of mfat_mount without the initialisation of the priority
\* queues: the caches as memset leaves them.
MountMachineNoPri(d, fail, divz) ==
    [dev |-> d, fail |-> fail, n |-> 0, rlog |-> << >>, wlog |-> wlog,
     divz |-> divz, trapped |-> FALSE,
     cache |-> [j \in 0 .. MFAT_NUM_CACHES - 1 |-> ZeroCache]]

\* The machine mfat_mount runs on after memset(&s_ctx, 0, sizeof(mfat_ctx_t))
\* and the initialisation of the cache priority queues; divz is what a
\* division by zero does in this build.
MountMachine(d, fail, divz) ==
    [dev |-> d, fail |-> fail, n |-> 0, rlog |-> << >>, wlog |-> wlog,
     divz |-> divz, trapped |-> FALSE,
     cache |-> [j \in 0 .. MFAT_NUM_CACHES - 1 |->
                   [ZeroCache EXCEPT !.pri = [i \in CacheIds |-> i]]]]

\* mfat_mount from the reading of the partition tables on, on the machine m
\* that the clearing of the context and of the priority queues made.
MountOn(m) ==
    Let(_mfat_decode_partition_tables(m, [i \in PartIds |-> ZeroPartition]), LAMBDA t :
    Let(IF t.ok THEN PickPartition(t.partition, 0, -1, -1) ELSE -1, LAMBDA ap :
        [m |-> t.m, ret |-> IF t.ok /\ ap >= 0 THEN 0 ELSE -1,
         partition |-> t.partition, active_partition |-> ap]))

\* int mfat_mount(read_fun, write_fun, custom): d is the device behind the
\* callbacks.  Returns [m, ret, partition, active_partition].
mfat_mount(d, fail, divz) == MountOn(MountMachine(d, fail, divz))

\* mfat_select_partition without the test of the partition's type.
SelectPartitionAnyType(partition_no) ==
    IF ~initialized THEN -1
    ELSE IF partition_no < 0 \/ partition_no >= MFAT_NUM_PARTITIONS THEN -1
    ELSE 0

\* int mfat_select_partition(int partition_no)
mfat_select_partition(partition_no) ==
    IF ~initialized THEN -1
    ELSE IF partition_no < 0 \/ partition_no >= MFAT_NUM_PARTITIONS THEN -1
    ELSE IF partition[partition_no].type = MFAT_TYPE_UNKNOWN THEN -1
    ELSE 0

\* void mfat_sync(void).  Returns m.
mfat_sync(fail) ==
    IF ~initialized THEN Machine(fail) ELSE _mfat_sync_impl(Machine(fail))

\* int mfat_fstat(int fd, mfat_stat_t* stat).  Returns [m, ret, stat].
mfat_fstat(fd, fail) ==
    IF ~initialized \/ ~_mfat_get_file(file, fd)
    THEN [m |-> Machine(fail), ret |-> -1, stat |-> NoStat]
    ELSE _mfat_fstat_impl(Machine(fail), file[fd].info)

\* int mfat_stat(const char* path, mfat_stat_t* stat).  Returns [m, ret, stat].
mfat_stat(path, fail) ==
    IF ~initialized \/ active_partition < 0 \/ path = NullPath
    THEN [m |-> Machine(fail), ret |-> -1, stat |-> NoStat]
    ELSE _mfat_stat_impl(Machine(fail), partition, active_partition, path)

\* mfat_open with every oflag that has the MFAT_O_WRONLY bit refused.
OpenReadOnly(path, oflag, fail) ==
    IF ~initialized \/ active_partition < 0
    THEN [m |-> Machine(fail), ret |-> -1, file |-> file]
    ELSE IF path = NullPath \/ BitAnd(oflag, MFAT_O_RDWR) = 0
            \/ BitAnd(oflag, MFAT_O_WRONLY) # 0
    THEN [m |-> Machine(fail), ret |-> -1, file |-> file]
    ELSE _mfat_open_impl(Machine(fail), partition, active_partition, file, path, oflag)

\* int mfat_open(const char* path, int oflag).  Returns [m, ret, file].
mfat_open(path, oflag, fail) ==
    IF ~initialized \/ active_partition < 0
    THEN [m |-> Machine(fail), ret |-> -1, file |-> file]
    ELSE IF path = NullPath \/ BitAnd(oflag, MFAT_O_RDWR) = 0
    THEN [m |-> Machine(fail), ret |-> -1, file |-> file]
    ELSE _mfat_open_impl(Machine(fail), partition, active_partition, file, path, oflag)

\* int mfat_close(int fd).  Returns [m, ret, file].
mfat_close(fd, fail) ==
    IF ~initialized \/ ~_mfat_get_file(file, fd)
    THEN [m |-> Machine(fail), ret |-> -1, file |-> file]
    ELSE Let(_mfat_close_impl(Machine(fail), file[fd]), LAMBDA r :
             [m |-> r.m, ret |-> r.ret, file |-> [file EXCEPT ![fd] = r.f]])

\* mfat_read with the geometry and FAT of the active partition in the place
\* of those of the partition the file was opened on.
ReadOnActivePartition(fd, nbyte, fail) ==
    IF ~initialized \/ ~_mfat_get_file(file, fd)
    THEN [m |-> Machine(fail), ret |-> -1, file |-> file, out |-> << >>]
    ELSE Let(_mfat_read_impl(Machine(fail), [i \in PartIds |-> partition[active_partition]],
                             file[fd], nbyte), LAMBDA r :
             [m |-> r.m, ret |-> r.ret, file |-> [file EXCEPT ![fd] = r.f],
              out |-> r.out])

\* mfat_read without the test of s_ctx.initialized.
ReadUnmounted(fd, nbyte, fail) ==
    IF ~_mfat_get_file(file, fd)
    THEN [m |-> Machine(fail), ret |-> -1, file |-> file, out |-> << >>]
    ELSE Let(_mfat_read_impl(Machine(fail), partition, file[fd], nbyte), LAMBDA r :
             [m |-> r.m, ret |-> r.ret, file |-> [file EXCEPT ![fd] = r.f],
              out |-> r.out])

\* int64_t mfat_read(int fd, void* buf, uint32_t nbyte).
\* Returns [m, ret, file, out].
mfat_read(fd, nbyte, fail) ==
    IF ~initialized \/ ~_mfat_get_file(file, fd)
    THEN [m |-> Machine(fail), ret |-> -1, file |-> file, out |-> << >>]
    ELSE Let(_mfat_read_impl(Machine(fail), partition, file[fd], nbyte), LAMBDA r :
             [m |-> r.m, ret |-> r.ret, file |-> [file EXCEPT ![fd] = r.f],
              out |-> r.out])

\* int64_t mfat_write(int fd, const void* buf, uint32_t nbyte)
mfat_write(fd, nbyte) ==
    IF ~initialized \/ ~_mfat_get_file(file, fd) THEN -1
    ELSE _mfat_write_impl(file[fd], nbyte)

\* int64_t mfat_lseek(int fd, int64_t offset, int whence).
\* Returns [m, ret, file].
mfat_lseek(fd, offset, whence, fail) ==
    IF ~initialized \/ ~_mfat_get_file(file, fd)
    THEN [m |-> Machine(fail), ret |-> -1, file |-> file]
    ELSE Let(_mfat_lseek_impl(Machine(fail), partition, file[fd], offset, whence),
             LAMBDA r : [m |-> r.m, ret |-> r.ret, file |-> [file EXCEPT ![fd] = r.f]])

(***************************************************************************)
(* The actions: one call of a public function each.                        *)
(***************************************************************************)
\* The record of a call that ran on the machine m.
Done(op, fd, arg, whence, path, ret, out, stat, m) ==
    Call(op, fd, arg, whence, path, ret, out, stat, m.rlog, m.n - Len(m.rlog),
         m.fail > 0 /\ m.n >= m.fail)

\* mfat_mount with NULL function pointers: -1 before anything is touched.
MountNull ==
    /\ last' = Call("mount", -1, 0, 0, << >>, -1, << >>, NoStat, << >>, 0, FALSE)
    /\ UNCHANGED << initialized, active_partition, partition, file, cache, dev, wlog >>

\* A call of mfat_mount; when a division traps the program ends inside the
\* call, which the record of the call shows as the op "trap".
Mount(d, fail) ==
    \E divz \in DivByZero : \E r \in {mfat_mount(d, fail, divz)} :
        /\ initialized' = (r.ret = 0)
        /\ active_partition' = r.active_partition
        /\ partition' = r.partition
        /\ file' = [fd \in FdIds |-> ZeroFile]
        /\ cache' = r.m.cache
        /\ dev' = d
        /\ wlog' = r.m.wlog
        /\ last' = Done(IF r.m.trapped THEN "trap" ELSE "mount", -1, d, 0, << >>, r.ret,
                        << >>, NoStat, r.m)

\* void mfat_unmount(void)
Unmount(fail) ==
    \E m \in {_mfat_sync_impl(Machine(fail))} :
        /\ initialized' = FALSE
        /\ cache' = m.cache
        /\ wlog' = m.wlog
        /\ last' = Done("unmount", -1, 0, 0, << >>, 0, << >>, NoStat, m)
        /\ UNCHANGED << active_partition, partition, file, dev >>

SelectPartition(partition_no) ==
    \E ret \in {mfat_select_partition(partition_no)} :
        /\ active_partition' = IF ret = 0 THEN partition_no ELSE active_partition
        /\ last' = Call("select_partition", -1, partition_no, 0, << >>, ret, << >>,
                        NoStat, << >>, 0, FALSE)
        /\ UNCHANGED << initialized, partition, file, cache, dev, wlog >>

Sync(fail) ==
    \E m \in {mfat_sync(fail)} :
        /\ cache' = m.cache
        /\ wlog' = m.wlog
        /\ last' = Done("sync", -1, 0, 0, << >>, 0, << >>, NoStat, m)
        /\ UNCHANGED << initialized, active_partition, partition, file, dev >>

Fstat(fd, fail) ==
    \E r \in {mfat_fstat(fd, fail)} :
        /\ cache' = r.m.cache
        /\ wlog' = r.m.wlog
        /\ last' = Done("fstat", fd, 0, 0, << >>, r.ret, << >>, r.stat, r.m)
        /\ UNCHANGED << initialized, active_partition, partition, file, dev >>

Stat(path, fail) ==
    \E r \in {mfat_stat(path, fail)} :
        /\ cache' = r.m.cache
        /\ wlog' = r.m.wlog
        /\ last' = Done("stat", -1, 0, 0, path, r.ret, << >>, r.stat, r.m)
        /\ UNCHANGED << initialized, active_partition, partition, file, dev >>

Open(path, oflag, fail) ==
    \E r \in {mfat_open(path, oflag, fail)} :
        /\ file' = r.file
        /\ cache' = r.m.cache
        /\ wlog' = r.m.wlog
        /\ last' = Done("open", -1, oflag, 0, path, r.ret, << >>, NoStat, r.m)
        /\ UNCHANGED << initialized, active_partition, partition, dev >>

Close(fd, fail) ==
    \E r \in {mfat_close(fd, fail)} :
        /\ file' = r.file
        /\ cache' = r.m.cache
        /\ wlog' = r.m.wlog
        /\ last' = Done("close", fd, 0, 0, << >>, r.ret, << >>, NoStat, r.m)
        /\ UNCHANGED << initialized, active_partition, partition, dev >>

Read(fd, nbyte, fail) ==
    \E r \in {mfat_read(fd, nbyte, fail)} :
        /\ file' = r.file
        /\ cache' = r.m.cache
        /\ wlog' = r.m.wlog
        /\ last' = Done("read", fd, nbyte, 0, << >>, r.ret, r.out, NoStat, r.m)
        /\ UNCHANGED << initialized, active_partition, partition, dev >>

Write(fd, nbyte) ==
    /\ last' = Call("write", fd, nbyte, 0, << >>, mfat_write(fd, nbyte), << >>, NoStat,
                    << >>, 0, FALSE)
    /\ UNCHANGED << initialized, active_partition, partition, file, cache, dev, wlog >>

Lseek(fd, offset, whence, fail) ==
    \E r \in {mfat_lseek(fd, offset, whence, fail)} :
        /\ file' = r.file
        /\ cache' = r.m.cache
        /\ wlog' = r.m.wlog
        /\ last' = Done("lseek", fd, offset, whence, << >>, r.ret, << >>, NoStat, r.m)
        /\ UNCHANGED << initialized, active_partition, partition, dev >>

(***************************************************************************)
(* The callers.  Paths name the files of device 1.                         *)
(***************************************************************************)
P_HELLO == Bytes(<< "/", "H", "E", "L", "L", "O", ".", "T", "X", "T" >>)
P_BIG == Bytes(<< "/", "B", "I", "G", ".", "B", "I", "N" >>)
P_EXACT == Bytes(<< "/", "e", "x", "a", "c", "t", ".", "b", "i", "n" >>)
P_EMPTY == Bytes(<< "/", "E", "M", "P", "T", "Y", ".", "T", "X", "T" >>)
P_DIR == Bytes(<< "/", "D", "I", "R" >>)
P_FILE == Bytes(<< "/", "D", "I", "R", "/", "F", "I", "L", "E", ".", "B", "I", "N" >>)
P_NOFILE == Bytes(<< "/", "N", "O", "F", "I", "L", "E", ".", "T", "X", "T" >>)
P_NOTDIR == Bytes(<< "/", "H", "E", "L", "L", "O", ".", "T", "X", "T", "/", "X" >>)
P_NODIR == Bytes(<< "/", "N", "O", "D", "I", "R", "/", "X" >>)
P_DATA == Bytes(<< "D", "A", "T", "A", ".", "B", "I", "N" >>)
P_XC == Bytes(<< "/", "s", "u", "b", "/", "x", ".", "c" >>)

\* No descriptor is open: a caller that works with one file at a time opens
\* only then.
NoneOpen == \A fd \in FdIds : ~file[fd].open

\* The largest index of a callback invocation that a caller sees fail.
MaxFail == 2

(***************************************************************************)
(* SpecRead: a caller that mounts device 1, opens one file at a time for   *)
(* reading, and reads and seeks on it.  A caller that sees a read fail     *)
(* gives up on the volume and mounts it again.                             *)
(***************************************************************************)
ReadPaths == {P_HELLO, P_BIG, P_EXACT, P_EMPTY, P_DATA}
ReadSizes == {0, 256, 700, -1}
ReadSeeks == {0, 100, 1024}

\* The last call was not a read that returned -1.
ReadWorked == ~(last.op = "read" /\ last.ret = -1)

NextRead ==
    \/ Mount(1, 0)
    \/ ReadWorked /\ NoneOpen /\ SelectPartition(1)
    \/ \E path \in ReadPaths : ReadWorked /\ NoneOpen /\ Open(path, MFAT_O_RDONLY, 0)
    \/ \E nbyte \in ReadSizes : ReadWorked /\ Read(0, nbyte, 0)
    \/ \E nbyte \in ReadSizes, fail \in 1 .. MaxFail : ReadWorked /\ Read(0, nbyte, fail)
    \/ \E offset \in ReadSeeks : ReadWorked /\ Lseek(0, offset, MFAT_SEEK_SET, 0)

SpecRead == Init /\ [][NextRead]_vars

(***************************************************************************)
(* The bytes of a file, from the device image and the volume's geometry.   *)
(***************************************************************************)
\* The FAT entry of cluster c in the image of the mounted device.
ImageNext(part, c) ==
    Let(IF part.type = MFAT_TYPE_FAT32 THEN 4 ELSE 2, LAMBDA width :
    Let(DevImage(dev, part.first_block + part.num_reserved_blocks
                      + ((width * c) \div MFAT_BLOCK_SIZE)), LAMBDA fat :
    Let((width * c) % MFAT_BLOCK_SIZE, LAMBDA o :
        IF width = 2
        THEN fat[o + 1] + 256 * fat[o + 2]
        ELSE fat[o + 1] + 256 * fat[o + 2] + 65536 * fat[o + 3]
             + 16777216 * (fat[o + 4] % 16))))

RECURSIVE ImageCluster(_, _, _)
\* The cluster reached from cluster c after k steps along the chain.
ImageCluster(part, c, k) ==
    IF k = 0 THEN c ELSE ImageCluster(part, ImageNext(part, c), k - 1)

\* The device block that holds file position p of the file info describes.
ImageBlockOf(part, info, p) ==
    part.first_data_block
    + (ImageCluster(part, info.first_cluster,
                    p \div (part.blocks_per_cluster * MFAT_BLOCK_SIZE)) - 2)
      * part.blocks_per_cluster
    + ((p % (part.blocks_per_cluster * MFAT_BLOCK_SIZE)) \div MFAT_BLOCK_SIZE)

RECURSIVE ImageBytes(_, _, _, _)
\* The file bytes at positions p .. p + n - 1: byte (q mod 512) of block
\* ImageBlockOf(q) for each position q, gathered block by block.
ImageBytes(part, info, p, n) ==
    IF n <= 0 THEN << >>
    ELSE Let(IF n < MFAT_BLOCK_SIZE - (p % MFAT_BLOCK_SIZE)
             THEN n ELSE MFAT_BLOCK_SIZE - (p % MFAT_BLOCK_SIZE), LAMBDA c :
             SubSeq(DevImage(dev, ImageBlockOf(part, info, p)),
                    (p % MFAT_BLOCK_SIZE) + 1, (p % MFAT_BLOCK_SIZE) + c)
             \o ImageBytes(part, info, p + c, n - c))

\* min(n, size - offset) for the uint32_t n of a read on f.
Available(f, n) ==
    IF n < 0 \/ n > f.info.size - f.offset THEN f.info.size - f.offset ELSE n

\* f is an open descriptor with read permission.
Readable(f) == f.open /\ BitAnd(f.oflag, MFAT_O_RDONLY) # 0

(***************************************************************************)
(* Claims about read.                                                      *)
(***************************************************************************)
\* C1: on an open, readable fd of the well-formed volume, with the device
\* answering every request, read(fd, buf, n) at offset o stores exactly the
\* min(n, size - o) file bytes at positions o .. o + min(n, size - o) - 1,
\* where position p is byte p mod 512 of block first_data_block
\* + (c_k - 2) * blocks_per_cluster + (p mod cluster_bytes) div 512 and c_k is
\* the cluster k = p div cluster_bytes steps along the chain from
\* first_cluster; for head, body and tail, and across cluster boundaries.
C1_ReadCopiesFileBytes ==
    [][(last'.op = "read" /\ _mfat_get_file(file, last'.fd)
        /\ Readable(file[last'.fd]) /\ ~last'.failed)
       => last'.out = ImageBytes(partition[file[last'.fd].info.part_no],
                                 file[last'.fd].info, file[last'.fd].offset,
                                 Available(file[last'.fd], last'.arg))]_vars

\* A read of BIG.BIN from offset 100 to the end: a head of 412 bytes, four
\* whole blocks in three clusters and a tail of 88 bytes.
C1_Witness ==
    /\ last.op = "read" /\ last.ret = 2548 /\ Len(last.out) = 2548
    /\ file[0].offset = 2648 /\ file[0].info.first_cluster = 3

\* C2: on an open fd with read permission, read(fd, buf, n) returns exactly
\* min(n, size - offset) and advances the offset by that amount unless a
\* device request fails; a read at offset = size returns 0, makes no device
\* request and leaves the descriptor unchanged.
C2_ReadCountAndOffset ==
    [][(last'.op = "read" /\ _mfat_get_file(file, last'.fd) /\ Readable(file[last'.fd]))
       => /\ ~last'.failed
             => /\ last'.ret = Available(file[last'.fd], last'.arg)
                /\ file'[last'.fd].offset = file[last'.fd].offset + last'.ret
          /\ file[last'.fd].offset = file[last'.fd].info.size
             => /\ last'.ret = 0
                /\ last'.rlog = << >> /\ last'.nwrite = 0
                /\ file'[last'.fd] = file[last'.fd]]_vars

\* A read of 700 bytes clamped to the 548 bytes left of BIG.BIN.
C2_Witness ==
    /\ last.op = "read" /\ last.arg = 700 /\ last.ret = 548
    /\ file[0].offset = file[0].info.size

\* The chunk sizes of the callers that read a file piece by piece.
ChunkPlans == {<< 256, 700 >>, << 100, 1000, 13 >>}

RECURSIVE ChunkedRead(_, _, _, _, _)
\* The bytes a caller gathers from f by reads of plan[1], plan[2], ... bytes
\* (cyclically) until read returns 0, seeking to the current position after
\* each read: lseek(fd, 0, SEEK_CUR) after the reads of even i,
\* lseek(fd, offset, SEEK_SET) after the others.  Returns [ret, out, f].
ChunkedRead(m, f, plan, i, out) ==
    Let(_mfat_read_impl(m, partition, f, plan[(i % Len(plan)) + 1]), LAMBDA r :
        IF r.ret <= 0 THEN [ret |-> r.ret, out |-> out, f |-> r.f]
        ELSE Let(IF i % 2 = 0
                 THEN _mfat_lseek_impl(r.m, partition, r.f, 0, MFAT_SEEK_CUR)
                 ELSE _mfat_lseek_impl(r.m, partition, r.f, r.f.offset, MFAT_SEEK_SET),
                 LAMBDA k :
                 IF k.ret # r.f.offset THEN [ret |-> -1, out |-> out \o r.out, f |-> k.f]
                 ELSE ChunkedRead(k.m, k.f, plan, i + 1, out \o r.out)))

\* The result of lseek(fd, 0, SEEK_SET) and one read of size bytes on f.
WholeRead(f) ==
    Let(_mfat_lseek_impl(Machine(0), partition, f, 0, MFAT_SEEK_SET), LAMBDA k :
        _mfat_read_impl(k.m, partition, k.f, f.info.size))

\* The result of lseek(fd, 0, SEEK_SET) and the chunked reads of plan on f.
PiecewiseRead(f, plan) ==
    Let(_mfat_lseek_impl(Machine(0), partition, f, 0, MFAT_SEEK_SET), LAMBDA k :
        ChunkedRead(k.m, k.f, plan, 0, << >>))

\* C3: in every reachable state and for every open readable fd, one read of
\* size bytes from offset 0 stores the same bytes as reads in chunks from
\* offset 0 up to the end of the file with an lseek to the current position
\* (SEEK_CUR 0 or SEEK_SET to the current offset) between them.
C3_WholeEqualsPiecewise ==
    \A fd \in FdIds :
        (initialized /\ Readable(file[fd]))
        => \A plan \in ChunkPlans :
               /\ WholeRead(file[fd]).ret = file[fd].info.size
               /\ PiecewiseRead(file[fd], plan).ret = 0
               /\ PiecewiseRead(file[fd], plan).out = WholeRead(file[fd]).out

\* BIG.BIN open in the middle of its second cluster after a read, with five
\* chunks of 256 and 700 bytes covering its 2648 bytes.
C3_Witness ==
    /\ initialized /\ Readable(file[0]) /\ last.op = "read"
    /\ file[0].info.size = 2648 /\ file[0].offset = 1280
    /\ Len(PiecewiseRead(file[0], << 256, 700 >>).out) = 2648

(***************************************************************************)
(* SpecLoop: a caller that mounts device 1, opens a file, seeks, and then  *)
(* reads with one size until read no longer returns a positive count (the  *)
(* loop of the fatcat example).  The loop runs on once it has started.     *)
(***************************************************************************)
LoopPaths == {P_HELLO, P_BIG, P_EXACT, P_EMPTY, P_DATA}
LoopSizes == {100, 256, 700, -1}
LoopSeeks == {0, 100, 1024}

\* The caller is in its loop: the last read returned a positive count.
InLoop == last.op = "read" /\ last.ret > 0

\* The next iteration: the same descriptor, the same size.
ReadAgain == InLoop /\ Read(last.fd, last.arg, 0)

NextLoop ==
    \/ ~InLoop /\ Mount(1, 0)
    \/ ~InLoop /\ NoneOpen /\ SelectPartition(1)
    \/ \E path \in LoopPaths : ~InLoop /\ NoneOpen /\ Open(path, MFAT_O_RDONLY, 0)
    \/ \E offset \in LoopSeeks : ~InLoop /\ Lseek(0, offset, MFAT_SEEK_SET, 0)
    \/ \E nbyte \in LoopSizes : ~InLoop /\ Read(0, nbyte, 0)
    \/ ReadAgain

SpecLoop == Init /\ [][NextLoop]_vars /\ WF_vars(ReadAgain)

\* C6: a read that returns a positive count leaves the offset strictly
\* larger, and a caller that reads with a fixed n > 0 as long as the count is
\* positive gets 0 (end of file) after finitely many reads.
C6_ReadLoopTerminates ==
    /\ [][(last'.op = "read" /\ last'.ret > 0)
          => file'[last'.fd].offset > file[last'.fd].offset]_vars
    /\ InLoop ~> (last.op = "read" /\ last.ret = 0)

\* The loop over BIG.BIN with n = 256 at its end: the eleventh read returned
\* the last 88 bytes and this one returns 0.
C6_Witness ==
    /\ last.op = "read" /\ last.arg = 256 /\ last.ret = 0 /\ last.rlog = << >>
    /\ file[0].offset = 2648 /\ file[0].info.size = 2648

(***************************************************************************)
(* SpecSeek: a caller that mounts device 1, opens one file at a time, and  *)
(* seeks with every whence, in range and out of range, between reads.      *)
(***************************************************************************)
SeekPaths == {P_HELLO, P_BIG, P_EXACT, P_DATA}
SeekSets == {-1, 0, 100, 1024, 2649}
SeekCurs == {-1024, 0, 512, 3000}
SeekEnds == {-3000, -1024, 0, 1}
BadWhences == {-1, 3}
SeekReads == {512}

NextSeek ==
    \/ Mount(1, 0)
    \/ NoneOpen /\ SelectPartition(1)
    \/ \E path \in SeekPaths : NoneOpen /\ Open(path, MFAT_O_RDONLY, 0)
    \/ \E nbyte \in SeekReads : Read(0, nbyte, 0)
    \/ \E offset \in SeekSets : Lseek(0, offset, MFAT_SEEK_SET, 0)
    \/ \E offset \in SeekCurs : Lseek(0, offset, MFAT_SEEK_CUR, 0)
    \/ \E offset \in SeekEnds : Lseek(0, offset, MFAT_SEEK_END, 0)
    \/ \E whence \in BadWhences : Lseek(0, 0, whence, 0)

SpecSeek == Init /\ [][NextSeek]_vars

\* The positions tried on f: block and cluster boundaries, their neighbours
\* and both ends of the file.
SeekPoints(f) ==
    {p \in {0, 1, 511, 512, 1023, 1024, 1025, 2047, 2048, f.info.size - 1, f.info.size} :
        0 <= p /\ p <= f.info.size}

\* The values returned by lseek(fd, p, SEEK_SET) and the lseek(fd, 0,
\* SEEK_CUR) that follows it, on f in the current state.
SetThenCur(f, p) ==
    Let(_mfat_lseek_impl(Machine(0), partition, f, p, MFAT_SEEK_SET), LAMBDA k :
        << k.ret, _mfat_lseek_impl(k.m, partition, k.f, 0, MFAT_SEEK_CUR).ret >>)

\* C4: in every reachable state (after any reads and seeks forwards and
\* backwards) and for every open fd, lseek(fd, p, SEEK_SET) with
\* 0 <= p <= size returns p and the lseek(fd, 0, SEEK_CUR) after it returns
\* p; lseek(fd, 0, SEEK_END) returns size.
C4_SeekIdentity ==
    \A fd \in FdIds :
        (initialized /\ _mfat_get_file(file, fd))
        => /\ \A p \in SeekPoints(file[fd]) : SetThenCur(file[fd], p) = << p, p >>
           /\ _mfat_lseek_impl(Machine(0), partition, file[fd], 0, MFAT_SEEK_END).ret
              = file[fd].info.size

\* BIG.BIN at offset 1624 after a seek to its end and a seek 1024 bytes
\* backwards, from where a seek to the start goes backwards again.
C4_Witness ==
    /\ last.op = "lseek" /\ last.whence = MFAT_SEEK_CUR /\ last.arg = -1024
    /\ last.ret = 1624 /\ file[0].offset = 1624
    /\ SetThenCur(file[0], 0) = << 0, 0 >>

\* The target offset of lseek(fd, offset, whence) on f, for a valid whence.
SeekTarget(f, offset, whence) ==
    CASE whence = MFAT_SEEK_SET -> offset
      [] whence = MFAT_SEEK_CUR -> f.offset + offset
      [] whence = MFAT_SEEK_END -> f.info.size + offset

\* lseek(fd, offset, whence) on f is out of range or has an invalid whence.
OutOfRange(f, offset, whence) ==
    \/ whence \notin {MFAT_SEEK_SET, MFAT_SEEK_CUR, MFAT_SEEK_END}
    \/ SeekTarget(f, offset, whence) < 0
    \/ SeekTarget(f, offset, whence) > f.info.size

\* C5: on an open fd, lseek with a target offset (SET: offset, CUR: current
\* offset + offset, END: size + offset) that is negative or greater than
\* size, or with a whence that is none of SET, CUR and END, returns -1 and
\* leaves the offset and current_cluster of the descriptor unchanged.
C5_SeekRejectsOutOfRange ==
    [][(last'.op = "lseek" /\ _mfat_get_file(file, last'.fd)
        /\ OutOfRange(file[last'.fd], last'.arg, last'.whence))
       => /\ last'.ret = -1
          /\ file'[last'.fd].offset = file[last'.fd].offset
          /\ file'[last'.fd].current_cluster = file[last'.fd].current_cluster]_vars

\* A seek one byte past the end of BIG.BIN, refused at offset 1024 in the
\* second cluster of the file.
C5_Witness ==
    /\ last.op = "lseek" /\ last.whence = MFAT_SEEK_END /\ last.arg = 1 /\ last.ret = -1
    /\ file[0].offset = 1024 /\ file[0].current_cluster = 5

(***************************************************************************)
(* SpecOpen: a caller that mounts device 1 and opens and closes files on   *)
(* its first partition, with good and bad paths and flags, up to a full    *)
(* descriptor table.                                                       *)
(***************************************************************************)
\* The calls of open at any time: path and oflag.
OpenCalls ==
    {<< P_HELLO, MFAT_O_RDONLY >>, << P_FILE, MFAT_O_WRONLY >>,
     << P_HELLO, 0 >>, << P_FILE, MFAT_O_CREAT >>, << P_DIR, MFAT_O_RDONLY >>,
     << P_DIR, MFAT_O_WRONLY >>, << P_NOFILE, MFAT_O_RDONLY >>,
     << P_NOFILE, MFAT_O_RDWR + MFAT_O_CREAT >>, << P_NOTDIR, MFAT_O_RDONLY >>,
     << P_NODIR, MFAT_O_RDONLY >>, << NullPath, MFAT_O_RDONLY >>}
\* The calls of open with no descriptor open.
FirstOpenCalls == {<< P_BIG, MFAT_O_RDWR >>, << P_EMPTY, MFAT_O_WRONLY + MFAT_O_APPEND >>}
CloseFds == {-1, 1, 2, MFAT_NUM_FDS}
\* The numbers of bytes a caller tries to write to a file it has just opened.
WriteSizes == {16}

NextOpen ==
    \/ Mount(1, 0)
    \/ \E call \in OpenCalls : Open(call[1], call[2], 0)
    \/ \E call \in FirstOpenCalls : NoneOpen /\ Open(call[1], call[2], 0)
    \/ \E fd \in CloseFds : Close(fd, 0)
    \/ Lseek(0, 0, MFAT_SEEK_END, 0)
    \/ \E nbyte \in WriteSizes : last.op = "open" /\ last.ret >= 0 /\ Write(last.ret, nbyte)

SpecOpen == Init /\ [][NextOpen]_vars

\* The descriptors that are open.
OpenFds == {fd \in FdIds : file[fd].open}

\* The paths of the regular files of the first partition of device 1.
RegularFiles == {P_HELLO, P_BIG, P_EXACT, P_EMPTY, P_FILE}

\* The paths that do not lead to a regular file of the first partition: no
\* such entry, no such directory, a directory, a file used as a directory.
BadPaths == {P_NOFILE, P_NODIR, P_DIR, P_NOTDIR}

\* The open flags and positions of all descriptors are the same after the step.
SlotsKept ==
    \A fd \in FdIds :
        /\ file'[fd].open = file[fd].open
        /\ file'[fd].offset = file[fd].offset
        /\ file'[fd].current_cluster = file[fd].current_cluster

\* C7: a successful open returns the lowest fd that is not open and marks
\* it open; never more than MFAT_NUM_FDS descriptors are open; with all
\* MFAT_NUM_FDS slots open, open returns -1 and changes no slot's open flag,
\* offset or current_cluster.
C7_FdAllocation ==
    [][last'.op = "open"
       => /\ last'.ret >= 0
             => /\ last'.ret \in FdIds \ OpenFds
                /\ \A g \in 0 .. last'.ret - 1 : g \in OpenFds
                /\ OpenFds' = OpenFds \cup {last'.ret}
          /\ Cardinality(OpenFds') <= MFAT_NUM_FDS
          /\ OpenFds = FdIds => (last'.ret = -1 /\ SlotsKept)]_vars

\* An open that returns fd 1, closed before while fds 2 and 3 stayed open.
C7_Witness ==
    /\ last.op = "open" /\ last.ret = 1
    /\ OpenFds = FdIds /\ file[0].offset = file[0].info.size /\ file[0].offset > 0

C9_OpenForWriteRefused ==
    [][(last'.op = "open" /\ initialized /\ BitAnd(last'.arg, MFAT_O_WRONLY) # 0)
       => (last'.ret = -1 /\ OpenFds' = OpenFds)]_vars

\* C9 as the code has it: on the mounted volume, open with the
\* MFAT_O_WRONLY bit in oflag succeeds on the path of a regular file while a
\* slot is free (it returns the lowest free fd and stores oflag in it) and
\* returns -1, allocating no fd, otherwise; a write to a descriptor opened
\* that way returns -1.
C9_OpenForWriteOpens ==
    [][/\ (last'.op = "open" /\ initialized /\ BitAnd(last'.arg, MFAT_O_WRONLY) # 0)
          => IF last'.path \in RegularFiles /\ OpenFds # FdIds
             THEN /\ last'.ret \in FdIds \ OpenFds
                  /\ \A g \in 0 .. last'.ret - 1 : g \in OpenFds
                  /\ OpenFds' = OpenFds \cup {last'.ret}
                  /\ file'[last'.ret].oflag = last'.arg
             ELSE last'.ret = -1 /\ OpenFds' = OpenFds
       /\ (last'.op = "write" /\ _mfat_get_file(file, last'.fd)
           /\ BitAnd(file[last'.fd].oflag, MFAT_O_WRONLY) # 0)
          => last'.ret = -1]_vars

\* /DIR/FILE.BIN opened with MFAT_O_WRONLY as fd 1 and a write to it refused.
C9_Witness ==
    /\ last.op = "write" /\ last.fd = 1 /\ last.ret = -1
    /\ file[1].open /\ file[1].oflag = MFAT_O_WRONLY /\ file[1].info.size = 600

(***************************************************************************)
(* SpecAll: a caller of every public function, on a device whose requests  *)
(* may fail.                                                               *)
(***************************************************************************)
AllPartitions == {1, 2}
AllFds == {-1, 0, 1}
AllOpenCalls == {<< P_BIG, MFAT_O_RDWR >>, << P_DATA, MFAT_O_WRONLY >>}
AllSizes == {0, 700}

NextAll ==
    \/ MountNull
    \/ \E fail \in 0 .. MaxFail : Mount(1, fail)
    \/ Unmount(0)
    \/ \E partition_no \in AllPartitions : NoneOpen /\ SelectPartition(partition_no)
    \/ Sync(0)
    \/ Fstat(0, 0)
    \/ Stat(P_XC, 0)
    \/ \E call \in AllOpenCalls : NoneOpen /\ Open(call[1], call[2], 0)
    \/ \E fd \in AllFds : Close(fd, 0)
    \/ \E fail \in 0 .. MaxFail : Read(0, -1, fail)
    \/ \E fd \in AllFds, nbyte \in AllSizes : Write(fd, nbyte)
    \/ Lseek(0, 1024, MFAT_SEEK_SET, 0)

SpecAll == Init /\ [][NextAll]_vars

\* C10: in every run of the public functions the write callback is never
\* invoked, the device is never stored to and no cache slot is dirty; write
\* returns -1 for every fd and size and changes nothing of the state.
C10_NothingWritten ==
    /\ [](/\ wlog = << >>
          /\ last.nwrite = 0
          /\ \A c \in 0 .. MFAT_NUM_CACHES - 1 : \A i \in CacheIds :
                 cache[c].block[i].state # MFAT_DIRTY)
    /\ [][last'.op = "write"
          => /\ last'.ret = -1
             /\ UNCHANGED << initialized, active_partition, partition, file, cache, dev,
                             wlog >>]_vars

\* A write of 700 bytes to BIG.BIN, open for reading and writing and read to
\* its end with data in the cache, refused.
C10_Witness ==
    /\ last.op = "write" /\ last.arg = 700 /\ last.ret = -1
    /\ _mfat_get_file(file, last.fd) /\ file[last.fd].oflag = MFAT_O_RDWR
    /\ file[last.fd].offset = 2648
    /\ \E i \in CacheIds : cache[MFAT_CACHE_DATA].block[i].state = MFAT_VALID

\* The fields of s_ctx are as they were.
ContextKept ==
    UNCHANGED << initialized, active_partition, partition, file, cache, dev, wlog >>

\* The calls that take a file descriptor.
FdOps == {"read", "write", "lseek", "fstat", "close"}

\* C11: a close that returns 0 frees the slot of an open fd; read, write,
\* lseek, fstat and close on an fd that is out of range or not open return
\* -1, invoke no callback and change nothing; a slot becomes open only by an
\* open that returns its number, and that open starts at offset 0 with
\* current_cluster = first_cluster of the file it found.
C11_FdLifecycle ==
    [][/\ (last'.op = "close" /\ last'.ret = 0)
          => /\ last'.fd \in FdIds
             /\ file[last'.fd].open
             /\ ~file'[last'.fd].open
       /\ (last'.op \in FdOps /\ ~(last'.fd \in FdIds /\ file[last'.fd].open))
          => /\ last'.ret = -1
             /\ last'.rlog = << >> /\ last'.nwrite = 0
             /\ ContextKept
       /\ \A fd \in FdIds :
              (~file[fd].open /\ file'[fd].open)
              => /\ last'.op = "open" /\ last'.ret = fd
                 /\ file'[fd].offset = 0
                 /\ file'[fd].current_cluster = file'[fd].info.first_cluster
                 /\ file'[fd].info.part_no = active_partition
                 /\ file'[fd].oflag = last'.arg]_vars

\* A read refused on fd 0, closed after BIG.BIN was read to its end (the
\* slot still holds the offset), on the mounted volume.
C11_Witness ==
    /\ last.op = "read" /\ last.fd = 0 /\ last.ret = -1
    /\ initialized /\ ~file[0].open
    /\ file[0].offset = 2648 /\ file[0].info.size = 2648

\* The calls that need a mounted volume.
MountedOps ==
    {"select_partition", "open", "close", "read", "write", "lseek", "stat", "fstat", "sync"}

\* C12: while s_ctx.initialized is false (no mount yet, a mount that
\* returned -1, or after unmount), select_partition, open, close, read,
\* write, lseek, stat and fstat return -1, sync does nothing, and none of
\* them invokes a callback or changes the context.
C12_MountFirst ==
    [][(~initialized /\ last'.op \in MountedOps)
       => /\ last'.op # "sync" => last'.ret = -1
          /\ last'.rlog = << >> /\ last'.nwrite = 0
          /\ last'.out = << >> /\ last'.stat = NoStat
          /\ ContextKept]_vars

\* A read refused after unmount on fd 0, which the slot still shows open on
\* BIG.BIN at offset 0.
C12_Witness ==
    /\ last.op = "read" /\ last.fd = 0 /\ last.ret = -1
    /\ ~initialized /\ dev = 1 /\ active_partition = 0
    /\ file[0].open /\ file[0].oflag = MFAT_O_RDWR /\ file[0].offset = 0

\* A cache no block has been requested from since mfat_mount set it up:
\* every slot invalid, the priority queue in the identity order.
FreshCache == [ZeroCache EXCEPT !.pri = [i \in CacheIds |-> i]]

RECURSIVE LruReplay(_, _, _)
\* The cache that holds the blocks of log, requested in that order and each
\* of them missed, when the first request found the cache c: every block
\* takes the slot at the end of the priority queue, which moves to the front.
LruReplay(c, d, log) ==
    IF log = << >> THEN c
    ELSE Let(c.pri[MFAT_NUM_CACHED_BLOCKS - 1], LAMBDA slot :
         LruReplay([block |-> [c.block EXCEPT ![slot] =
                                  [state |-> MFAT_VALID, blk_no |-> Head(log),
                                   buf |-> DevImage(d, Head(log))]],
                    pri |-> [i \in CacheIds |->
                                IF i = 0 THEN slot
                                ELSE IF \E k \in 0 .. i - 1 : c.pri[k] = slot
                                     THEN c.pri[i] ELSE c.pri[i - 1]]],
                   d, Tail(log)))

\* C13: a mount that returns 0 leaves every fd slot closed, so that calls on
\* descriptors from before it return -1 and the next successful open returns
\* fd 0; the caches hold only blocks this mount read, placed as the requests
\* of this mount place them in caches whose priority queues start in the
\* identity order.
C13_MountClears ==
    [][/\ (last'.op = "mount" /\ last'.ret = 0)
          => /\ \A fd \in FdIds : file'[fd] = ZeroFile
             /\ \A j \in 0 .. MFAT_NUM_CACHES - 1 : \A i \in CacheIds :
                    cache'[j].block[i].state # MFAT_INVALID
                    => \E k \in 1 .. Len(last'.rlog) :
                           cache'[j].block[i].blk_no = last'.rlog[k]
             /\ cache'[MFAT_CACHE_FAT] = FreshCache
             /\ cache'[MFAT_CACHE_DATA] = LruReplay(FreshCache, dev', last'.rlog)
       /\ (last.op = "mount" /\ last.ret = 0 /\ last'.op \in FdOps)
          => last'.ret = -1
       /\ (last.op = "mount" /\ last.ret = 0 /\ last'.op = "open" /\ last'.ret >= 0)
          => last'.ret = 0]_vars

\* Device 1 mounted: the BPB of the FAT32 partition in slot 0, the BPB of
\* the FAT16 partition in slot 1, slot 0 the most recently used, the FAT
\* cache empty and no fd open.
C13_Witness ==
    /\ last.op = "mount" /\ last.ret = 0 /\ initialized
    /\ cache[MFAT_CACHE_DATA].block[0].blk_no = 9000
    /\ cache[MFAT_CACHE_DATA].block[1].blk_no = 8
    /\ cache[MFAT_CACHE_DATA].pri = [i \in CacheIds |-> i]
    /\ cache[MFAT_CACHE_FAT] = FreshCache
    /\ NoneOpen

(***************************************************************************)
(* SpecMount: a caller that mounts one medium - an MBR disk with any mix   *)
(* of partitions, a medium without partition table, or device 1 - then     *)
(* selects partitions and unmounts.  Mounting device 1 or one of the media *)
(* without partition table may meet a device error.                        *)
(***************************************************************************)
MountDevices == {1} \cup MbrDevices \cup BareDevices
FailDevices == {1} \cup BareDevices
SelectArgs == {-1, 0, 1, 2, 3, MFAT_NUM_PARTITIONS}

NextMount ==
    \/ \E d \in MountDevices : last.op = "init" /\ Mount(d, 0)
    \/ \E d \in FailDevices, fail \in 1 .. MaxFail : last.op = "init" /\ Mount(d, fail)
    \/ \E partition_no \in SelectArgs : last.op # "init" /\ SelectPartition(partition_no)
    \/ last.op \in {"mount", "select_partition"} /\ Unmount(0)

SpecMount == Init /\ [][NextMount]_vars

\* Partition i is classified FAT16 or FAT32.
IsFat(part) == part.type \in {MFAT_TYPE_FAT16, MFAT_TYPE_FAT32}

\* C14: after a mount that returns 0 the active partition is the lowest
\* partition that is bootable and classified FAT16 or FAT32 if there is one,
\* else the lowest partition classified FAT16 or FAT32; when no partition
\* is classified FAT16 or FAT32 mount returns -1.
C14_ActivePartition ==
    [][last'.op = "mount"
       => /\ last'.ret = 0
             => /\ active_partition' \in PartIds
                /\ IsFat(partition'[active_partition'])
                /\ IF \E i \in PartIds : partition'[i].boot /\ IsFat(partition'[i])
                   THEN /\ partition'[active_partition'].boot
                        /\ \A i \in 0 .. active_partition' - 1 :
                               ~(partition'[i].boot /\ IsFat(partition'[i]))
                   ELSE \A i \in 0 .. active_partition' - 1 : ~IsFat(partition'[i])
          /\ (\A i \in PartIds : ~IsFat(partition'[i])) => last'.ret = -1]_vars

\* An MBR disk mounted with partition 2 active: partition 0 is FAT but not
\* bootable, partition 1 is bootable but not FAT, partitions 2 and 3 are
\* bootable FAT partitions.
C14_Witness ==
    /\ last.op = "mount" /\ last.ret = 0 /\ active_partition = 2
    /\ IsFat(partition[0]) /\ ~partition[0].boot
    /\ ~IsFat(partition[1]) /\ partition[1].boot
    /\ IsFat(partition[2]) /\ partition[2].boot
    /\ IsFat(partition[3]) /\ partition[3].boot

\* The type the layout of device d gives partition i.
ExpectedType(d, i) ==
    IF d = 1 THEN << MFAT_TYPE_FAT16, MFAT_TYPE_FAT32, MFAT_TYPE_UNKNOWN, MFAT_TYPE_UNKNOWN >>[i + 1]
    ELSE IF d \in MbrDevices
    THEN IF MbrKind(d, i) # 1 THEN MFAT_TYPE_UNKNOWN
         ELSE IF (i + MbrVariant(d)) % 2 = 0 THEN MFAT_TYPE_FAT16 ELSE MFAT_TYPE_FAT32
    ELSE IF i = 0 /\ d = BareBase THEN MFAT_TYPE_FAT16
    ELSE IF i = 0 /\ d = BareBase + 1 THEN MFAT_TYPE_FAT32
    ELSE MFAT_TYPE_UNKNOWN

\* C15: a partition whose BPB has a bad signature, a bad jump code, a
\* bytes-per-sector value other than 512 or a FAT12 cluster count ends up
\* Unknown, the others keep their FAT16 or FAT32 type, and a mount without
\* device error returns -1 exactly when no partition is FAT16 or FAT32.
C15_BadBpbNotFatal ==
    [][(last'.op = "mount" /\ ~last'.failed)
       => /\ \A i \in PartIds : partition'[i].type = ExpectedType(dev', i)
          /\ last'.ret = -1 <=> \A i \in PartIds : ~IsFat(partition'[i])]_vars

\* An MBR disk mounted with partition 3 active: the BPBs of the FAT
\* partitions 0, 1 and 2 have a FAT12 cluster count, a bad signature and a
\* bad jump code.
C15_Witness ==
    /\ last.op = "mount" /\ last.ret = 0 /\ active_partition = 3
    /\ dev \in MbrDevices /\ MbrVariant(dev) = 3
    /\ \A i \in 0 .. 2 : MbrKind(dev, i) = 2 /\ partition[i].type = MFAT_TYPE_UNKNOWN
    /\ partition[0].num_clusters = 4085
    /\ partition[3].type = MFAT_TYPE_FAT16

(***************************************************************************)
(* Claims about the active partition (on SpecMount).                       *)
(***************************************************************************)
\* While mounted the active partition is a FAT16 or FAT32 partition and no
\* partition is left undecided.
ActiveIsFat ==
    initialized
    => /\ active_partition \in PartIds
       /\ IsFat(partition[active_partition])
       /\ \A i \in PartIds : partition[i].type # MFAT_TYPE_FAT_UNDECIDED

\* select_partition(i) on a mounted volume returns -1 and leaves the active
\* partition alone when i is out of range or partition i is Unknown, and
\* else makes i the active partition and returns 0.
SelectsOnlyFat ==
    (last'.op = "select_partition" /\ initialized)
    => IF last'.arg \notin PartIds THEN last'.ret = -1 /\ active_partition' = active_partition
       ELSE IF partition[last'.arg].type = MFAT_TYPE_UNKNOWN
       THEN last'.ret = -1 /\ active_partition' = active_partition
       ELSE last'.ret = 0 /\ active_partition' = last'.arg

\* C38: while mounted, active_partition always indexes a partition
\* classified FAT16 or FAT32; mount leaves no partition undecided when it
\* returns 0; select_partition(i) returns -1 without changing
\* active_partition when i is out of range or partition i is Unknown, and
\* otherwise sets active_partition to i and returns 0.
C38_ActiveAlwaysFat == []ActiveIsFat /\ [][SelectsOnlyFat]_vars

\* select_partition(3) has made the FAT partition 3 active on a mounted MBR
\* disk whose partition 1 is Unknown.
C38_Witness ==
    /\ initialized /\ last.op = "select_partition" /\ last.arg = 3 /\ last.ret = 0
    /\ active_partition = 3 /\ IsFat(partition[3])
    /\ partition[1].type = MFAT_TYPE_UNKNOWN /\ IsFat(partition[0])
    /\ dev \in MbrDevices

(***************************************************************************)
(* SpecBpb: a caller that mounts one medium without partition table whose  *)
(* BPB varies in the fields the FAT type is computed from, then selects a  *)
(* partition and unmounts.  A program that a division trap has ended makes *)
(* no further call.                                                        *)
(***************************************************************************)
Running == last.op # "trap"

NextBpb ==
    \/ \E d \in BpbDevices : last.op = "init" /\ Mount(d, 0)
    \/ \E partition_no \in {0, 1} : last.op = "mount" /\ SelectPartition(partition_no)
    \/ Running /\ last.op # "init" /\ Unmount(0)

SpecBpb == Init /\ [][NextBpb]_vars

\* count_of_clusters of the partition record p, in uint32_t arithmetic.
CountOfClusters(p) ==
    UDiv(p.num_blocks - (p.num_reserved_blocks + (p.num_fats * p.blocks_per_fat)
                            + p.blocks_in_root_dir), p.blocks_per_cluster)

\* The partition record p is classified as its count of clusters demands;
\* root_cluster is the dword at offset 44 of its BPB.
ClassifiedByCount(p, root_cluster) ==
    IF ULt(CountOfClusters(p), 4085) THEN p.type = MFAT_TYPE_UNKNOWN
    ELSE IF ULt(CountOfClusters(p), 65525)
    THEN /\ p.type = MFAT_TYPE_FAT16
         /\ p.root_dir_block = p.first_data_block - p.blocks_in_root_dir
    ELSE /\ p.type = MFAT_TYPE_FAT32
         /\ p.root_dir_cluster = root_cluster

\* C16: for every BPB that passes the validation and has 512-byte sectors,
\* mfat_mount computes count_of_clusters = (num_blocks - (num_reserved_blocks
\* + num_fats * blocks_per_fat + blocks_in_root_dir)) div blocks_per_cluster
\* and leaves the partition Unknown below 4085 clusters, FAT16 (with
\* root_dir_block = first_data_block - blocks_in_root_dir) below 65525, and
\* FAT32 (with root_dir_cluster from offset 44) from 65525 on.  Where the
\* BPB gives no quotient (blocks_per_cluster = 0) the formula asks only that
\* the mount completes.
C16_FatTypeByClusterCount ==
    [][(dev' \in BpbDevices /\ last'.op \in {"mount", "trap"})
       => /\ last'.op = "mount"
          /\ partition'[0].blocks_per_cluster = BpbSpcOf(dev')
          /\ partition'[0].num_blocks = BpbTotal(dev')
          /\ partition'[0].blocks_per_cluster # 0
             => /\ BpbTarget(dev') < 4
                   => CountOfClusters(partition'[0]) = BpbCounts[BpbTarget(dev') + 1]
                /\ ClassifiedByCount(partition'[0], BpbRootCluster(dev'))]_vars

\* mfat_mount ended by the division trap: the BPB in the data cache is valid,
\* has 512-byte sectors, 0 sectors per cluster and a total of 65559 blocks.
C16_Witness ==
    /\ last.op = "trap" /\ dev \in BpbDevices /\ BpbSpcOf(dev) = 0
    /\ \E i \in CacheIds :
           /\ cache[MFAT_CACHE_DATA].block[i].state = MFAT_VALID
           /\ cache[MFAT_CACHE_DATA].block[i].blk_no = 0
           /\ _mfat_is_valid_bpb(cache[MFAT_CACHE_DATA].block[i].buf)
           /\ _mfat_get_word(cache[MFAT_CACHE_DATA].block[i].buf, 11) = MFAT_BLOCK_SIZE
           /\ Byte(cache[MFAT_CACHE_DATA].block[i].buf, 13) = 0
           /\ _mfat_get_dword(cache[MFAT_CACHE_DATA].block[i].buf, 32) = 65559

\* The part of C16 that holds: a mount that returns, of a BPB with
\* blocks_per_cluster > 0, classifies the partition by its count of clusters.
C16_NonZeroClusterSize ==
    [][(dev' \in BpbDevices /\ last'.op = "mount" /\ BpbSpcOf(dev') # 0)
       => /\ BpbTarget(dev') < 4
             => CountOfClusters(partition'[0]) = BpbCounts[BpbTarget(dev') + 1]
          /\ ClassifiedByCount(partition'[0], BpbRootCluster(dev'))]_vars

(***************************************************************************)
(* SpecStat: a caller that mounts device 1, selects a partition, asks for  *)
(* the status of paths while no file is open, and opens one file at a time *)
(* to ask for its status by descriptor, reading from it in between.        *)
(* Requests of stat and fstat to the device may fail.                      *)
(***************************************************************************)
P_SUB == Bytes(<< "/", "S", "U", "B" >>)
P_DIRSEP == Bytes(<< "d", "i", "r", "/" >>)
P_BACK == Bytes(<< "\\", "D", "I", "R", "\\", ".", "/", "f", "i", "l", "e", ".", "b", "i", "n" >>)

StatPaths ==
    {P_HELLO, P_BIG, P_EXACT, P_EMPTY, P_DIR, P_FILE, P_NOFILE, P_NOTDIR, P_NODIR, P_DATA,
     P_XC, P_SUB, P_DIRSEP, P_BACK, NullPath}
StatOpens == {P_HELLO, P_EXACT, P_FILE, P_DATA, P_XC, P_DIR}
StatFails == {P_FILE, P_NOFILE}
StatReads == {700}

NextStat ==
    \/ last.op = "init" /\ Mount(1, 0)
    \/ \E partition_no \in {0, 1} : last.op = "mount" /\ SelectPartition(partition_no)
    \/ \E path \in StatPaths, fail \in 0 .. MaxFail :
           /\ NoneOpen
           /\ fail > 0 => path \in StatFails
           /\ Stat(path, fail)
    \/ \E path \in StatOpens : NoneOpen /\ Open(path, MFAT_O_RDONLY, 0)
    \/ \E fd \in {0, 1}, fail \in 0 .. 1 : Fstat(fd, fail)
    \/ \E nbyte \in StatReads : file[0].offset = 0 /\ Read(0, nbyte, 0)
    \/ Close(0, 0)

SpecStat == Init /\ [][NextStat]_vars

\* The directory entries of device 1: the paths that lead to each, its
\* partition, attribute byte, size field and first cluster.
D1Entries ==
    {[paths |-> {P_HELLO}, part |-> 0, attr |-> 32, size |-> 13, first_cluster |-> 2],
     [paths |-> {P_BIG}, part |-> 0, attr |-> 32, size |-> 2648, first_cluster |-> 3],
     [paths |-> {P_DIR, P_DIRSEP}, part |-> 0, attr |-> 16, size |-> 0, first_cluster |-> 6],
     [paths |-> {P_EXACT}, part |-> 0, attr |-> 33, size |-> 2048, first_cluster |-> 7],
     [paths |-> {P_EMPTY}, part |-> 0, attr |-> 32, size |-> 0, first_cluster |-> 0],
     [paths |-> {P_FILE, P_BACK}, part |-> 0, attr |-> 32, size |-> 600, first_cluster |-> 9],
     [paths |-> {P_DATA}, part |-> 1, attr |-> 32, size |-> 1536, first_cluster |-> 3],
     [paths |-> {P_SUB}, part |-> 1, attr |-> 16, size |-> 0, first_cluster |-> 6],
     [paths |-> {P_XC}, part |-> 1, attr |-> 32, size |-> 10, first_cluster |-> 7]}

\* The entries path resolves to on partition part (none or one).
Resolves(path, part) == {e \in D1Entries : path \in e.paths /\ e.part = part}

\* stat describes the directory entry e: the size; IFDIR and not IFREG for a
\* directory, else IFREG and not IFDIR; all r and x bits; all w bits or none
\* as the read-only attribute is clear or set.
Describes(stat, e) ==
    /\ stat.st_size = e.size
    /\ (BitAnd(stat.st_mode, MFAT_S_IFDIR) # 0) = (BitAnd(e.attr, 16) # 0)
    /\ (BitAnd(stat.st_mode, MFAT_S_IFREG) # 0) = (BitAnd(e.attr, 16) = 0)
    /\ \A bit \in {MFAT_S_IRUSR, MFAT_S_IRGRP, MFAT_S_IROTH,
                   MFAT_S_IXUSR, MFAT_S_IXGRP, MFAT_S_IXOTH} :
           BitAnd(stat.st_mode, bit) # 0
    /\ \A bit \in {MFAT_S_IWUSR, MFAT_S_IWGRP, MFAT_S_IWOTH} :
           (BitAnd(stat.st_mode, bit) # 0) = (BitAnd(e.attr, 1) = 0)

CanonPieces ==
    {<< >>, Bytes(<< "." >>), Bytes(<< ".", "." >>), Bytes(<< "a" >>),
     Bytes(<< "A", "L", "o", "n", "g", "F", "i", "l", "e", "N", "a", "m", "e", ".",
              "j", "s", "o", "n" >>),
     Bytes(<< "x", ".", "c" >>), Bytes(<< "f", "o", "o", ".", "e", "x", "e" >>),
     Bytes(<< "b", "i", "n" >>), Bytes(<< "b", ".", "t", "a", "r", ".", "g", "z" >>),
     Bytes(<< "F", "i", "l", "e", ".", "1" >>), Bytes(<< "N", "O", "E", "X", "T", "8", "_", "~" >>),
     << 97, 32, 43, 233, 46, 36, 126 >>}
CanonLeads == {<< >>, << 47 >>, << 46, 47 >>}
CanonSeps == {<< 47 >>, << 92 >>, << 47, 47 >>}
CanonTrails == {<< >>, << 47 >>, << 92, 47 >>, << 47, 46, 47 >>}

CanonPaths ==
    {lead \o a \o trail : lead \in CanonLeads, a \in CanonPieces, trail \in CanonTrails}
    \cup {a \o sep \o b \o trail :
              a \in CanonPieces, sep \in CanonSeps, b \in CanonPieces, trail \in CanonTrails}

\* The first call, on path.
CanonFirst(path) ==
    \E r \in {_mfat_canonicalize_fname(path, 0)} :
        /\ last.op = "init"
        /\ last' = Call("canon", -1, 0, 0, path, r.next_idx, r.name, NoStat, << >>, 0, FALSE)
        /\ UNCHANGED << initialized, active_partition, partition, file, cache, dev, wlog >>

\* The call for the next part of the path, as in the loop of _mfat_find_file.
CanonNext ==
    /\ last.op = "canon" /\ last.ret >= 0
    /\ \E r \in {_mfat_canonicalize_fname(last.path, last.arg + last.ret)} :
        /\ last' = Call("canon", -1, last.arg + last.ret, 0, last.path, r.next_idx, r.name,
                        NoStat, << >>, 0, FALSE)
        /\ UNCHANGED << initialized, active_partition, partition, file, cache, dev, wlog >>

\* The canonicalizer applied to the 11-byte name of the previous call.
CanonAgain ==
    /\ last.op \in {"canon", "recanon"}
    /\ last.op = "recanon" => last.out # last.path
    /\ \E r \in {_mfat_canonicalize_fname(last.out, 0)} :
        /\ last' = Call("recanon", -1, 0, 0, last.out, r.next_idx, r.name, NoStat, << >>, 0,
                        FALSE)
        /\ UNCHANGED << initialized, active_partition, partition, file, cache, dev, wlog >>

NextCanon ==
    \/ \E path \in CanonPaths : CanonFirst(path)
    \/ CanonNext
    \/ CanonAgain

SpecCanon == Init /\ [][NextCanon]_vars

\* A path is split into components at every '/' and '\'.  A component is
\* named by the position it starts at: 0, or the position after a separator.
IsSeparator(c) == c = 47 \/ c = 92
CompStarts(path) == {0} \cup {i \in 1 .. Len(path) : IsSeparator(path[i])}
\* The position of the separator (or of the NUL) that ends the component at s.
CompEnd(path, s) ==
    IF \E i \in s + 1 .. Len(path) : IsSeparator(path[i])
    THEN (CHOOSE i \in s + 1 .. Len(path) :
              /\ IsSeparator(path[i])
              /\ \A j \in s + 1 .. i - 1 : ~IsSeparator(path[j])) - 1
    ELSE Len(path)
CompText(path, s) == SubSeq(path, s + 1, CompEnd(path, s))
\* The components that are skipped: the empty one and ".".
Skipped(comp) == comp = << >> \/ comp = << 46 >>
\* The starts of the components from position pos on that are not skipped.
NamedFrom(path, pos) ==
    {s \in CompStarts(path) : s >= pos /\ ~Skipped(CompText(path, s))}
Lowest(S) == CHOOSE s \in S : \A t \in S : s <= t

\* The characters that stay as they are, and the mapping of one character.
PermittedChars == (65 .. 90) \cup (48 .. 57) \cup KeptChars
ShortNameChar(c) ==
    IF c \in 97 .. 122 THEN c - 32 ELSE IF c \in PermittedChars THEN c ELSE 33
\* txt cut to n characters and space-padded to n characters, mapped.
PadField(txt, n) ==
    [i \in 1 .. n |-> IF i <= Len(txt) THEN ShortNameChar(txt[i]) ELSE 32]
\* The 8+3 name of a component: the name field is what precedes the first
\* '.', the extension field what follows it.
ShortName(comp) ==
    IF \E i \in 1 .. Len(comp) : comp[i] = 46
    THEN Let(Lowest({i \in 1 .. Len(comp) : comp[i] = 46}), LAMBDA dot :
             PadField(SubSeq(comp, 1, dot - 1), 8)
             \o PadField(SubSeq(comp, dot + 1, Len(comp)), 3))
    ELSE PadField(comp, 8) \o PadField(<< >>, 3)

\* The name of a call is the 8+3 name of the first component from its
\* start on that is not skipped.
NameOfNextComponent ==
    (last.op = "canon" /\ NamedFrom(last.path, last.arg) # {})
    => last.out = ShortName(CompText(last.path, Lowest(NamedFrom(last.path, last.arg))))

\* C18: a call of the canonicalizer yields the 8+3 name (upper-cased, '!'
\* for characters outside the permitted set) of the next component that is
\* neither empty nor "."; it returns -1 when no such component follows that
\* one (trailing separators ignored), else the index of the component after
\* it.
C18_Canonicalization ==
    /\ NameOfNextComponent
    /\ (last.op = "canon" /\ NamedFrom(last.path, last.arg) # {})
       => Let(Lowest(NamedFrom(last.path, last.arg)), LAMBDA s :
              last.ret = IF NamedFrom(last.path, s + 1) = {} THEN -1
                         ELSE CompEnd(last.path, s) + 1 - last.arg)

\* The path "bin//": the call returns 4, although nothing but separators
\* follows the component "bin".
C18_Witness ==
    /\ last.op = "canon" /\ last.arg = 0 /\ last.ret = 4
    /\ last.path = << 98, 105, 110, 47, 47 >>
    /\ last.out = << 66, 73, 78, 32, 32, 32, 32, 32, 32, 32, 32 >>

\* What holds of the canonicalizer: the name is the 8+3 name of the next
\* component that is neither empty nor "."; -1 is returned exactly when the
\* path ends with that component or with the one separator that follows it,
\* else the index after that separator; and a call that finds no such
\* component returns -1 with a blank name.
C18_OneTrailingSeparator ==
    /\ NameOfNextComponent
    /\ (last.op = "canon" /\ NamedFrom(last.path, last.arg) # {})
       => Let(Lowest(NamedFrom(last.path, last.arg)), LAMBDA s :
              last.ret = IF CompEnd(last.path, s) + 1 >= Len(last.path) THEN -1
                         ELSE CompEnd(last.path, s) + 1 - last.arg)
    /\ (last.op = "canon" /\ NamedFrom(last.path, last.arg) = {})
       => last.ret = -1 /\ last.out = Spaces11

\* The first 8 bytes of the 11-byte name with each space replaced by '!',
\* followed by a blank extension.
SpacesToBangs(name) ==
    [i \in 1 .. 11 |-> IF i > 8 THEN 32 ELSE IF name[i] = 32 THEN 33 ELSE name[i]]

\* C19 as stated: the canonicalizer applied to the 11-byte result of a
\* canonicalization yields that same result.
C19_Idempotent ==
    last.op = "recanon" => last.out = last.path

\* C19: the canonicalizer applied to the 11-byte result of a
\* canonicalization returns -1 and yields the first 8 bytes of that result
\* with every space replaced by '!' and a blank extension, which is the same
\* result only if that has no space in its first 8 bytes and no extension;
\* what it yields is not changed by a further application.
C19_SpacesBecomeBangs ==
    last.op = "recanon"
    => /\ Len(last.path) = 11
       /\ last.ret = -1
       /\ last.out = SpacesToBangs(last.path)
       /\ last.out = last.path
          <=> /\ \A i \in 1 .. 8 : last.path[i] # 32
              /\ \A i \in 9 .. 11 : last.path[i] = 32
       /\ _mfat_canonicalize_fname(last.out, 0).name = last.out

\* "FOO     EXE", the name of "foo.exe", becomes "FOO!!!!!   ".
C19_Witness ==
    /\ last.op = "recanon"
    /\ last.path = << 70, 79, 79, 32, 32, 32, 32, 32, 69, 88, 69 >>
    /\ last.out = << 70, 79, 79, 33, 33, 33, 33, 33, 32, 32, 32 >>

(***************************************************************************)
(* SpecCursor: a caller that mounts device 1, selects a partition, opens   *)
(* one file at a time, reads and seeks forwards and backwards, within and  *)
(* across clusters, on a device whose requests may fail, and closes the    *)
(* file.                                                                   *)
(***************************************************************************)
CursorPaths == {P_BIG, P_EXACT, P_EMPTY, P_DATA}
CursorReads == {512}
CursorSets == {600}
CursorCurs == {-1024}
CursorEnds == {0}

NextCursor ==
    \/ last.op = "init" /\ Mount(1, 0)
    \/ NoneOpen /\ last.op = "mount" /\ SelectPartition(1)
    \/ \E path \in CursorPaths : NoneOpen /\ Open(path, MFAT_O_RDONLY, 0)
    \/ \E nbyte \in CursorReads, fail \in 0 .. 1 : Read(0, nbyte, fail)
    \/ \E offset \in CursorSets : Lseek(0, offset, MFAT_SEEK_SET, 0)
    \/ \E offset \in CursorCurs : Lseek(0, offset, MFAT_SEEK_CUR, 0)
    \/ \E offset \in CursorEnds : Lseek(0, offset, MFAT_SEEK_END, 0)
    \/ Close(0, 0)

SpecCursor == Init /\ [][NextCursor]_vars

\* next_cluster of cluster c from the FAT of the image: a FAT16 entry from
\* 0xfff7 on stands for the FAT32 entry with the same low bits.
ImageNextCluster(part, c) ==
    IF part.type = MFAT_TYPE_FAT16 /\ ImageNext(part, c) >= 65527
    THEN ImageNext(part, c) + 268369920
    ELSE ImageNext(part, c)

RECURSIVE ImageWalk(_, _, _)
\* next_cluster applied k times, starting from cluster c.
ImageWalk(part, c, k) ==
    IF k = 0 THEN c ELSE ImageWalk(part, ImageNextCluster(part, c), k - 1)

\* The cluster the cursor of f is expected in.
CursorCluster(f) ==
    ImageWalk(partition[f.info.part_no], f.info.first_cluster,
              f.offset \div (partition[f.info.part_no].blocks_per_cluster * MFAT_BLOCK_SIZE))

\* C20: in every state reached by opens, reads, seeks and closes, the
\* current_cluster of each open fd is first_cluster followed
\* floor(offset / (blocks_per_cluster * 512)) times along the chain, the
\* offset is at most the size, and at offset = size on a cluster boundary
\* of a non-empty file current_cluster is an end-of-chain value.
C20_CursorInvariant ==
    \A fd \in FdIds :
        (initialized /\ _mfat_get_file(file, fd))
        => /\ file[fd].offset <= file[fd].info.size
           /\ file[fd].current_cluster = CursorCluster(file[fd])
           /\ (/\ file[fd].info.size > 0
               /\ file[fd].offset = file[fd].info.size
               /\ file[fd].offset
                    % (partition[file[fd].info.part_no].blocks_per_cluster * MFAT_BLOCK_SIZE)
                  = 0)
              => _mfat_is_eoc(file[fd].current_cluster)

\* EXACT.BIN (2048 bytes in clusters 7 and 8 of 1024 bytes) read to its end:
\* the cursor is on the end-of-chain value in the FAT entry of cluster 8.
C20_Witness ==
    /\ last.op = "read" /\ last.ret = 512 /\ last.fd = 0
    /\ file[0].open /\ file[0].info.size = 2048 /\ file[0].offset = 2048
    /\ file[0].info.first_cluster = 7
    /\ file[0].current_cluster = ImageNextCluster(partition[0], 8)
    /\ _mfat_is_eoc(file[0].current_cluster)

(***************************************************************************)
(* SpecFds: a caller that mounts device 1, opens HELLO.TXT and BIG.BIN, and *)
(* reads and seeks on both in any order, in range and out of range, on a   *)
(* device whose requests may fail.                                         *)
(***************************************************************************)
FdsReads == {1000}
FdsSets == {2000}
FdsCurs == {-1000}
FdsEnds == {1}

NextFds ==
    \/ last.op = "init" /\ Mount(1, 0)
    \/ NoneOpen /\ Open(P_HELLO, MFAT_O_RDONLY, 0)
    \/ file[0].open /\ ~file[1].open /\ Open(P_BIG, MFAT_O_RDONLY, 0)
    \/ \E fd \in {0, 1}, nbyte \in FdsReads, fail \in 0 .. 1 : Read(fd, nbyte, fail)
    \/ \E fd \in {0, 1}, offset \in FdsSets : Lseek(fd, offset, MFAT_SEEK_SET, 0)
    \/ \E fd \in {0, 1}, offset \in FdsCurs : Lseek(fd, offset, MFAT_SEEK_CUR, 0)
    \/ \E fd \in {0, 1}, offset \in FdsEnds : Lseek(fd, offset, MFAT_SEEK_END, 0)

SpecFds == Init /\ [][NextFds]_vars

\* C21: every open fd has 0 <= offset <= size, as integers and as uint32_t,
\* so size - offset does not wrap and a read is clamped to what is left of
\* the file.
C21_OffsetWithinSize ==
    \A fd \in FdIds :
        file[fd].open
        => /\ 0 <= file[fd].offset
           /\ file[fd].offset <= file[fd].info.size
           /\ UGe(file[fd].info.size, file[fd].offset)
           /\ \A nbyte \in FdsReads \cup {-1} :
                  ClampedNbyte(file[fd], nbyte)
                  = IF nbyte >= 0 /\ nbyte < file[fd].info.size - file[fd].offset
                    THEN nbyte ELSE file[fd].info.size - file[fd].offset

\* Two files open; after a failed read on BIG.BIN (fd 1) at offset 2000 and
\* a rejected seek, HELLO.TXT (fd 0) is at its end.
C21_Witness ==
    /\ file[0].open /\ file[0].info.size = 13 /\ file[0].offset = 13
    /\ file[1].open /\ file[1].info.size = 2648 /\ file[1].offset = 2000
    /\ last.op = "read" /\ last.fd = 1 /\ last.ret = -1 /\ last.failed

(***************************************************************************)
(* SpecDamaged: a caller that mounts device 2 and seeks on one of the files *)
(* whose directory entry promises more bytes than its cluster chain holds, *)
(* with a read after the open and after each seek, on a device whose       *)
(* requests may fail.                                                      *)
(***************************************************************************)
P_SHORT == Bytes(<< "/", "s", "h", "o", "r", "t", ".", "b", "i", "n" >>)
P_FREE == Bytes(<< "/", "f", "r", "e", "e", ".", "b", "i", "n" >>)
P_BAD == Bytes(<< "/", "b", "a", "d", ".", "b", "i", "n" >>)

DamagedPaths == {P_SHORT, P_FREE, P_BAD}
DamagedSets == {1024, 1100, 2048}
DamagedReads == {100, 1500}

NextDamaged ==
    \/ last.op = "init" /\ Mount(2, 0)
    \/ \E path \in DamagedPaths : last.op = "mount" /\ Open(path, MFAT_O_RDONLY, 0)
    \/ last.op = "mount" /\ Open(P_SHORT, MFAT_O_WRONLY, 0)
    \/ \E offset \in DamagedSets, fail \in 0 .. 1 : Lseek(0, offset, MFAT_SEEK_SET, fail)
    \/ \E nbyte \in DamagedReads, fail \in 0 .. 1 :
           /\ last.op \in {"open", "lseek"}
           /\ Read(0, nbyte, fail)

SpecDamaged == Init /\ [][NextDamaged]_vars

RECURSIVE ChainBlocks(_, _, _)
\* The data blocks of the clusters of the chain that starts at cluster c,
\* up to the first entry that is end-of-chain, free or BAD (at most k
\* clusters).
ChainBlocks(part, c, k) ==
    IF k = 0 \/ c < 2 \/ c >= BAD_CLUSTER THEN {}
    ELSE {part.first_data_block + (c - 2) * part.blocks_per_cluster + i :
              i \in 0 .. part.blocks_per_cluster - 1}
         \cup ChainBlocks(part, ImageNextCluster(part, c), k - 1)

\* The blocks of the FAT of part.
FatBlocks(part) ==
    {part.first_block + part.num_reserved_blocks + i : i \in 0 .. part.blocks_per_fat - 1}

MaxChain == 8

\* A read or lseek on f asks the device for no block other than the blocks
\* of the FAT and the data blocks of the clusters of its chain.
ReadsOnlyChain ==
    [][(last'.op \in {"read", "lseek"} /\ initialized /\ _mfat_get_file(file, last'.fd))
       => \A k \in 1 .. Len(last'.rlog) :
              last'.rlog[k] \in FatBlocks(partition[file[last'.fd].info.part_no])
                  \cup ChainBlocks(partition[file[last'.fd].info.part_no],
                                   file[last'.fd].info.first_cluster, MaxChain)]_vars

\* C22 as stated: a read that needs data while the cursor's cluster is an
\* end-of-chain value returns -1 and stores nothing, and no block computed
\* from an end-of-chain, free or BAD cluster value is read.
C22_NoAccessPastEoc ==
    /\ [][(/\ last'.op = "read" /\ initialized /\ _mfat_get_file(file, last'.fd)
           /\ _mfat_is_eoc(file[last'.fd].current_cluster)
           /\ ClampedNbyte(file[last'.fd], last'.arg) # 0)
          => last'.ret = -1 /\ last'.out = << >>]_vars
    /\ ReadsOnlyChain

\* SHORT.BIN (3000 bytes by its entry, one cluster of 1024 bytes) after a
\* seek to 1100: a read of 100 bytes returns 100, with bytes of the block
\* computed from the end-of-chain value 0x0FFFFFFF.
C22_Witness ==
    /\ last.op = "read" /\ last.arg = 100 /\ last.ret = 100 /\ Len(last.out) = 100
    /\ file[0].info.size = 3000 /\ file[0].info.first_cluster = 2
    /\ file[0].offset = 1200 /\ _mfat_is_eoc(file[0].current_cluster)
    /\ last.rlog = << 43 + (268435455 - 2) * 2 >>

\* What holds: at a cursor on an end-of-chain value a read that starts on a
\* block boundary returns -1 without a request to the device, and reads and
\* seeks whose cursor is on a cluster of the chain ask only for blocks of
\* the FAT and of the chain.
C22_AlignedAccessPastEoc ==
    [][/\ (/\ last'.op = "read" /\ initialized /\ _mfat_get_file(file, last'.fd)
           /\ _mfat_is_eoc(file[last'.fd].current_cluster)
           /\ ClampedNbyte(file[last'.fd], last'.arg) # 0
           /\ file[last'.fd].offset % MFAT_BLOCK_SIZE = 0)
          => last'.ret = -1 /\ last'.out = << >> /\ last'.rlog = << >>
       /\ (/\ last'.op \in {"read", "lseek"} /\ initialized /\ _mfat_get_file(file, last'.fd)
           /\ ~_mfat_is_eoc(file[last'.fd].current_cluster))
          => \A k \in 1 .. Len(last'.rlog) :
                 last'.rlog[k] \in FatBlocks(partition[file[last'.fd].info.part_no])
                     \cup ChainBlocks(partition[file[last'.fd].info.part_no],
                                      file[last'.fd].info.first_cluster, MaxChain)]_vars

\* C23: a read or lseek that returns -1, whatever the reason, leaves every
\* fd as it was; one that succeeds changes only offset and current_cluster
\* of its fd, the offset to the offset before plus the count (read) or to
\* the value returned (lseek).
C23_FailureLeavesFd ==
    [][(last'.op \in {"read", "lseek"} /\ initialized /\ _mfat_get_file(file, last'.fd))
       => /\ last'.ret = -1 => file' = file
          /\ last'.ret >= 0
             => /\ \A fd \in FdIds \ {last'.fd} : file'[fd] = file[fd]
                /\ file'[last'.fd]
                   = [file[last'.fd] EXCEPT
                        !.offset = IF last'.op = "read" THEN @ + last'.ret ELSE last'.ret,
                        !.current_cluster = file'[last'.fd].current_cluster]
                /\ (file'[last'.fd].current_cluster # file[last'.fd].current_cluster)
                   => file'[last'.fd].offset # file[last'.fd].offset]_vars

\* FREE.BIN at offset 1024: a read of 1500 bytes has got two blocks from the
\* device when the walk meets the free FAT entry of cluster 4; it returns -1
\* and the fd is still at 1024 in cluster 4.
C23_Witness ==
    /\ last.op = "read" /\ last.arg = 1500 /\ last.ret = -1 /\ ~last.failed
    /\ Len(last.rlog) = 2
    /\ file[0].info.first_cluster = 3 /\ file[0].offset = 1024
    /\ file[0].current_cluster = 4

(***************************************************************************)
(* SpecDeep: a caller that mounts device 2, selects a partition and asks   *)
(* for the status of paths into its large directories, on a device whose   *)
(* requests may fail.                                                      *)
(***************************************************************************)
\* The path prefix followed by the letter c and the two digits of k.
NumPath(prefix, c, k) == prefix \o << c, 48 + (k \div 10), 48 + (k % 10) >>

DeepPrefix == Bytes(<< "/", "D", "E", "E", "P", "/" >>)
\* DEEP/Enn: in the first block, the second block of the first cluster, the
\* two blocks of the second cluster, the third cluster, behind the 0x00
\* entry, and missing.
DeepPaths == {NumPath(DeepPrefix, 69, k) : k \in {5, 20, 40, 50, 65, 67, 99}}
\* /Rnn: in the FAT16 root directory R04 .. R31 (R16 .. in its second
\* block), in the FAT32 root directory R00 .. R32 (one block per cluster)
\* with R34 behind the 0x00 entry.
RootPaths == {NumPath(<< 47 >>, 82, k) : k \in {5, 20, 32, 34, 99}}
\* DEEP/X/E20, where DEEP has no entry X.
P_DEEPX == NumPath(DeepPrefix \o << 88, 47 >>, 69, 20)

NextDeep ==
    \/ last.op = "init" /\ Mount(2, 0)
    \/ last.op = "mount" /\ SelectPartition(1)
    \/ \E path \in DeepPaths \cup RootPaths \cup {P_DEEPX}, fail \in 0 .. 1 : Stat(path, fail)

SpecDeep == Init /\ [][NextDeep]_vars

\* The numbers k whose entry Ekk of DEEP, or Rkk of the FAT32 root
\* directory, lies before the 0x00 entry of the directory.
DeepEntries == 2 .. 65
Root32Entries == 0 .. 32
\* The numbers k whose entry lies in the first block of its directory.
DeepFirstBlock == 2 .. 15
Root32FirstBlock == 0 .. 15

\* stat of a path into a directory that is a cluster chain returns 0 exactly
\* for the entries numbered in deep (DEEP) and in root32 (FAT32 root).
ChainLookupFinds(deep, root32) ==
    (last.op = "stat" /\ initialized /\ ~last.failed)
    => /\ \A k \in 0 .. 99 :
              (active_partition = 0 /\ last.path = NumPath(DeepPrefix, 69, k))
              => (last.ret = 0 <=> k \in deep)
       /\ \A k \in 0 .. 99 :
              (active_partition = 1 /\ last.path = NumPath(<< 47 >>, 82, k))
              => (last.ret = 0 <=> k \in root32)

\* C24 as stated: in a directory stored as a cluster chain an entry is found
\* in whichever block and cluster of the chain it lies, unless a 0x00 entry
\* precedes it.
C24_WalksWholeDirectory == ChainLookupFinds(DeepEntries, Root32Entries)

\* stat("/DEEP/E20"): the root directory and the first block of DEEP are
\* read, the second block of DEEP, which holds E20, is not, and stat
\* returns -1.
C24_Witness ==
    /\ last.op = "stat" /\ last.path = NumPath(DeepPrefix, 69, 20) /\ active_partition = 0
    /\ last.ret = -1 /\ ~last.failed
    /\ last.rlog = << 41, 53 >>

\* What holds: an entry of a directory stored as a cluster chain is found
\* exactly when it lies in the first block of the directory.
C24_FirstBlockOnly == ChainLookupFinds(DeepFirstBlock, Root32FirstBlock)

\* C25 as stated: a lookup in the FAT16 root directory asks the device only
\* for blocks root_dir_block .. root_dir_block + blocks_in_root_dir - 1, and
\* fails when none of them holds a match.
C25_RootLookupBounded ==
    \A k \in 0 .. 99 :
        (/\ last.op = "stat" /\ initialized /\ ~last.failed /\ active_partition = 0
         /\ partition[0].type = MFAT_TYPE_FAT16
         /\ last.path = NumPath(<< 47 >>, 82, k))
        => /\ \A i \in 1 .. Len(last.rlog) :
                  /\ last.rlog[i] >= partition[0].root_dir_block
                  /\ last.rlog[i] < partition[0].root_dir_block
                                    + partition[0].blocks_in_root_dir
           /\ k \notin 4 .. 31 => last.ret = -1

\* stat("/R99") on the FAT16 partition, whose root directory (blocks 41 and
\* 42) is full and has no R99: the lookup goes on into the data area, which
\* starts at block 43.
C25_Witness ==
    /\ last.op = "stat" /\ last.path = NumPath(<< 47 >>, 82, 99) /\ active_partition = 0
    /\ ~last.failed
    /\ partition[0].root_dir_block = 41 /\ partition[0].blocks_in_root_dir = 2
    /\ partition[0].first_data_block = 43
    /\ \E i \in 1 .. Len(last.rlog) : last.rlog[i] >= 43

\* What holds: the lookup in the FAT16 root directory finds the entries of
\* both blocks of the directory, and visits the blocks in ascending order
\* from root_dir_block on.
C25_RootLookupLinear ==
    \A k \in 0 .. 99 :
        (/\ last.op = "stat" /\ initialized /\ ~last.failed /\ active_partition = 0
         /\ partition[0].type = MFAT_TYPE_FAT16
         /\ last.path = NumPath(<< 47 >>, 82, k))
        => /\ \A i \in 1 .. Len(last.rlog) : last.rlog[i] >= partition[0].root_dir_block
           /\ \A i, j \in 1 .. Len(last.rlog) : i < j => last.rlog[i] < last.rlog[j]
           /\ k \in 4 .. 31 => last.ret = 0

(***************************************************************************)
(* SpecCache: _mfat_read_block as the library calls it, on the mounted     *)
(* device 1, for a few blocks in each of the two caches and with device    *)
(* requests that fail.  In the record of a call arg is the block asked     *)
(* for, whence the cache, fd the slot that was selected, ret 0 or -1 (the  *)
(* NULL return) and out the buffer of the slot returned.                   *)
(***************************************************************************)
CacheBlocks == {41, 42}
FatCacheBlocks == {9, 25}

ReadBlock(block_no, cache_type, fail) ==
    /\ initialized
    /\ \E r \in {_mfat_read_block(Machine(fail), block_no, cache_type)} :
        /\ cache' = r.m.cache
        /\ wlog' = r.m.wlog
        /\ last' = Done("read_block", r.id, block_no, cache_type, << >>,
                        IF r.ok THEN 0 ELSE -1, IF r.ok THEN r.buf ELSE << >>, NoStat, r.m)
        /\ UNCHANGED << initialized, active_partition, partition, file, dev >>

NextCache ==
    \/ last.op = "init" /\ Mount(1, 0)
    \/ \E block_no \in CacheBlocks, fail \in 0 .. 1 : ReadBlock(block_no, MFAT_CACHE_DATA, fail)
    \/ \E block_no \in FatCacheBlocks, fail \in 0 .. 1 :
           ReadBlock(block_no, MFAT_CACHE_FAT, fail)

SpecCache == Init /\ [][NextCache]_vars

\* The blocks asked for in the checks of the cache.
ProbeBlocks == CacheBlocks \cup FatCacheBlocks \cup {0, 8}

\* C26: every Valid slot holds the device content of its block, and a
\* cached block read of block b that succeeds, with or without a device
\* request, returns a Valid slot tagged b whose buffer is the device content
\* of b; when the one device request of a miss fails it returns NULL.
C26_CacheCoherence ==
    initialized
    => /\ \A c \in 0 .. MFAT_NUM_CACHES - 1 : \A i \in CacheIds :
              cache[c].block[i].state = MFAT_VALID
              => cache[c].block[i].buf = DevContent(dev, wlog, cache[c].block[i].blk_no)
       /\ \A c \in 0 .. MFAT_NUM_CACHES - 1 : \A b \in ProbeBlocks : \A fail \in 0 .. 1 :
              Let(_mfat_read_block(Machine(fail), b, c), LAMBDA r :
                  /\ r.ok
                     => /\ r.m.cache[c].block[r.id].blk_no = b
                        /\ r.m.cache[c].block[r.id].state = MFAT_VALID
                        /\ r.m.cache[c].block[r.id].buf = DevContent(dev, wlog, b)
                        /\ r.buf = DevContent(dev, wlog, b)
                  /\ ~r.ok => fail = 1 /\ r.m.rlog = << b >>
                  /\ (fail = 0) => r.ok)

\* Block 42 read into the data cache after a failed read of block 42 and
\* with block 41 cached: the slot returned holds block 42.
C26_Witness ==
    /\ last.op = "read_block" /\ last.arg = 42 /\ last.whence = MFAT_CACHE_DATA
    /\ last.ret = 0 /\ last.rlog = << 42 >> /\ last.out = DevImage(1, 42)
    /\ \E i \in CacheIds :
           /\ cache[MFAT_CACHE_DATA].block[i].state = MFAT_INVALID
           /\ cache[MFAT_CACHE_DATA].block[i].blk_no = 42

\* C27: once mounted, the priority list of each of the two caches holds
\* every slot index exactly once, also after cached reads that failed.
C27_PriIsPermutation ==
    initialized
    => \A c \in 0 .. MFAT_NUM_CACHES - 1 :
           /\ DOMAIN cache[c].pri = CacheIds
           /\ \A i \in CacheIds : cache[c].pri[i] \in CacheIds
           /\ \A i, j \in CacheIds : i # j => cache[c].pri[i] # cache[c].pri[j]

\* The FAT cache after a failed cached read of block 25 that selected slot
\* 0: its priority list is 0, 1.
C27_Witness ==
    /\ last.op = "read_block" /\ last.whence = MFAT_CACHE_FAT /\ last.arg = 25
    /\ last.ret = -1 /\ last.failed /\ last.fd = 0
    /\ cache[MFAT_CACHE_FAT].pri[0] = 0 /\ cache[MFAT_CACHE_FAT].pri[1] = 1
    /\ cache[MFAT_CACHE_FAT].block[1].state = MFAT_VALID

\* C29: for every slot that is not Invalid, no other slot of the same cache,
\* of any state, carries the same block number.
C29_UniqueAmongAllSlots ==
    \A c \in 0 .. MFAT_NUM_CACHES - 1 : \A s, t \in CacheIds :
        (s # t /\ cache[c].block[s].state # MFAT_INVALID)
        => cache[c].block[t].blk_no # cache[c].block[s].blk_no

\* C29, amended: for every slot that is not Invalid, every other slot of the
\* same cache that carries the same block number is Invalid, and a lookup
\* of that block number selects the slot that is not Invalid.
C29_UniqueAmongUsableSlots ==
    \A c \in 0 .. MFAT_NUM_CACHES - 1 : \A s \in CacheIds :
        cache[c].block[s].state # MFAT_INVALID
        => /\ \A t \in CacheIds \ {s} :
                  cache[c].block[t].blk_no = cache[c].block[s].blk_no
                  => cache[c].block[t].state = MFAT_INVALID
           /\ SelectItem(cache[c], cache[c].block[s].blk_no) = s

\* The FAT cache after a read of block 9 that failed in one slot and a
\* retry that succeeded in the other: both slots carry block number 9.
C29_Witness ==
    /\ last.op = "read_block" /\ last.whence = MFAT_CACHE_FAT /\ last.arg = 9
    /\ last.ret = 0
    /\ \E s, t \in CacheIds :
           /\ s # t /\ last.fd = s
           /\ cache[MFAT_CACHE_FAT].block[s].state = MFAT_VALID
           /\ cache[MFAT_CACHE_FAT].block[s].blk_no = 9
           /\ cache[MFAT_CACHE_FAT].block[t].state = MFAT_INVALID
           /\ cache[MFAT_CACHE_FAT].block[t].blk_no = 9

\* C30: no two slots of one cache that are both not Invalid carry the same
\* block number, also after a device read that failed and left an Invalid
\* slot tagged with the block, and a retry that succeeded.
C30_NoTwoUsableSlotsShare ==
    \A c \in 0 .. MFAT_NUM_CACHES - 1 : \A i, j \in CacheIds :
        (i # j /\ cache[c].block[i].state # MFAT_INVALID
               /\ cache[c].block[j].state # MFAT_INVALID)
        => cache[c].block[i].blk_no # cache[c].block[j].blk_no

\* The data cache after a read of block 41 that failed, its retry that
\* succeeded in the other slot, and a further read of block 41 that hit the
\* Valid slot without a device request.
C30_Witness ==
    /\ last.op = "read_block" /\ last.whence = MFAT_CACHE_DATA /\ last.arg = 41
    /\ last.ret = 0 /\ last.rlog = << >>
    /\ cache[MFAT_CACHE_DATA].block[last.fd].state = MFAT_VALID
    /\ cache[MFAT_CACHE_DATA].block[last.fd].blk_no = 41
    /\ cache[MFAT_CACHE_DATA].block[1 - last.fd].state = MFAT_INVALID
    /\ cache[MFAT_CACHE_DATA].block[1 - last.fd].blk_no = 41

(***************************************************************************)
(* SpecLru: the data cache of a build with MFAT_NUM_CACHED_BLOCKS set to   *)
(* LruSlots (the source takes the value from the build, line 54), after    *)
(* the mount of device 1, under cached reads of three blocks that succeed  *)
(* or fail.  The field path of the record of a cached read holds the       *)
(* history of the cached reads since the mount, this one included, as      *)
(* pairs << block, selected slot >>.                                       *)
(***************************************************************************)
LruSlots == 3
MaxAccesses == 5
LruBlocks == {41, 42, 43}

\* The machine mfat_mount runs on in the build with LruSlots cached blocks.
MountMachineWide(d, fail, divz) ==
    [MountMachine(d, fail, divz) EXCEPT
        !.cache = [j \in 0 .. MFAT_NUM_CACHES - 1 |->
                      [block |-> [i \in 0 .. LruSlots - 1 |->
                                     [state |-> MFAT_INVALID, blk_no |-> 0, buf |-> ZeroBlock]],
                       pri   |-> [i \in 0 .. LruSlots - 1 |-> i]]]]

\* A call of mfat_mount in that build.
MountWide(d, fail) ==
    \E divz \in DivByZero : \E r \in {MountOn(MountMachineWide(d, fail, divz))} :
        /\ initialized' = (r.ret = 0)
        /\ active_partition' = r.active_partition
        /\ partition' = r.partition
        /\ file' = [fd \in FdIds |-> ZeroFile]
        /\ cache' = r.m.cache
        /\ dev' = d
        /\ wlog' = r.m.wlog
        /\ last' = Done("mount", -1, d, 0, << >>, r.ret, << >>, NoStat, r.m)

\* A cached read of a block through the data cache, recorded with the
\* history of the cached reads.
LruAccess(block_no, fail) ==
    /\ initialized
    /\ Len(last.path) < MaxAccesses
    /\ \E r \in {_mfat_read_block(Machine(fail), block_no, MFAT_CACHE_DATA)} :
        /\ cache' = r.m.cache
        /\ wlog' = r.m.wlog
        /\ last' = Done("read_block", r.id, block_no, MFAT_CACHE_DATA,
                        Append(last.path, << block_no, r.id >>),
                        IF r.ok THEN 0 ELSE -1, << >>, NoStat, r.m)
        /\ UNCHANGED << initialized, active_partition, partition, file, dev >>

NextLru ==
    \/ last.op = "init" /\ MountWide(1, 0)
    \/ \E block_no \in LruBlocks, fail \in 0 .. 1 : LruAccess(block_no, fail)

SpecLru == Init /\ [][NextLru]_vars

\* The place of slot a in the priority queue pri.
PriPos(pri, a) == CHOOSE i \in DOMAIN pri : pri[i] = a

RECURSIVE LastDistinct(_, _)
\* The k most recently requested distinct blocks of the history h.
LastDistinct(h, k) ==
    IF k = 0 \/ h = << >> THEN {}
    ELSE LET b == h[Len(h)][1]
         IN  {b} \cup LastDistinct(SelectSeq(h, LAMBDA e : e[1] # b), k - 1)

\* The place in the history h of the last cached read that selected slot s;
\* 0 when none did.
LastSelected(h, s) ==
    LET ks == {k \in 1 .. Len(h) : h[k][2] = s}
    IN  IF ks = {} THEN 0 ELSE CHOOSE k \in ks : \A j \in ks : j <= k

\* The cached read of this step selected slot s of the cache c for block x
\* and moved s to the front of the priority queue, keeping the order of the
\* other slots; on a miss s was the back of the queue, the slot that was
\* selected longest ago.
MovesToFront(c, c2, h, s, x) ==
    /\ c2.pri[0] = s
    /\ \A a, b \in DOMAIN c.block \ {s} :
           PriPos(c.pri, a) < PriPos(c.pri, b) => PriPos(c2.pri, a) < PriPos(c2.pri, b)
    /\ (\A i \in DOMAIN c.block : c.block[i].state = MFAT_INVALID \/ c.block[i].blk_no # x)
       => /\ s = c.pri[NumCachedBlocks(c.pri) - 1]
          /\ (\A t \in DOMAIN c.block : LastSelected(h, t) > 0)
             => \A t \in DOMAIN c.block \ {s} : LastSelected(h, s) < LastSelected(h, t)

\* The cached read of this step did not replace a block that is among the
\* N - 1 distinct blocks requested last.
KeepsRecentBlocks(c, h, s, x) ==
    (c.block[s].state # MFAT_INVALID /\ c.block[s].blk_no # x)
    => c.block[s].blk_no \notin LastDistinct(h, NumCachedBlocks(c.pri) - 1)

\* C28: every cached read moves the selected slot to the front of the
\* priority queue and keeps the order of the others; a miss replaces the
\* back of the queue, the slot accessed longest ago, and never replaces a
\* block that is among the N - 1 distinct blocks accessed last.
C28_TrueLru ==
    [][(last'.op = "read_block" /\ last.op \in {"mount", "read_block"})
       => /\ MovesToFront(cache[MFAT_CACHE_DATA], cache'[MFAT_CACHE_DATA], last.path,
                          last'.fd, last'.arg)
          /\ KeepsRecentBlocks(cache[MFAT_CACHE_DATA], last.path, last'.fd, last'.arg)]_vars

\* What holds of C28: the move to the front, the order of the others, and
\* the back of the queue as the slot a miss takes.
C28_MoveToFront ==
    [][(last'.op = "read_block" /\ last.op \in {"mount", "read_block"})
       => MovesToFront(cache[MFAT_CACHE_DATA], cache'[MFAT_CACHE_DATA], last.path,
                       last'.fd, last'.arg)]_vars

\* Block 41 was read into a slot, the read of block 42 failed and its retry
\* succeeded in another slot, and the read of block 43 then took the slot of
\* block 41, one of the two distinct blocks requested last.
C28_Witness ==
    /\ last.op = "read_block" /\ Len(last.path) = 4
    /\ last.path[1][1] = 41 /\ last.path[2][1] = 42 /\ last.path[3][1] = 42
    /\ last.path[4][1] = 43
    /\ last.path[4][2] = last.path[1][2]
    /\ last.path[2][2] # last.path[3][2]
    /\ \E i \in 0 .. LruSlots - 1 :
           /\ cache[MFAT_CACHE_DATA].block[i].blk_no = 42
           /\ cache[MFAT_CACHE_DATA].block[i].state = MFAT_INVALID
    /\ \A i \in 0 .. LruSlots - 1 : cache[MFAT_CACHE_DATA].block[i].blk_no # 41

(***************************************************************************)
(* SpecEvict: _mfat_get_cached_block on caches with Dirty slots.  No       *)
(* function of this version marks a slot Dirty (_mfat_write_impl is not    *)
(* implemented, line 1290), so the initial states are the context after    *)
(* the mount of device 1 with any of the slots of the data cache marked    *)
(* Dirty and its buffer changed, as a mutator of a cached buffer leaves    *)
(* it; the actions are cached reads whose first or second callback         *)
(* invocation may fail, and mfat_sync.                                     *)
(***************************************************************************)
EvictBlocks == {41, 42}
EvictFails == 0 .. 2

\* A cached buffer after a mutator changed its first byte.
Mutated(buf) == [buf EXCEPT ![1] = (@ + 1) % 256]

\* mfat_mount of device d on a context that nothing was written from.
MountedClean(d) ==
    MountOn([dev |-> d, fail |-> 0, n |-> 0, rlog |-> << >>, wlog |-> << >>,
             divz |-> [trap |-> TRUE, q |-> 0], trapped |-> FALSE,
             cache |-> [j \in 0 .. MFAT_NUM_CACHES - 1 |->
                           [ZeroCache EXCEPT !.pri = [i \in CacheIds |-> i]]]])

\* The caches the mount of device d leaves, with the slots ds of the data
\* cache Dirty.
DirtiedCache(d, ds) ==
    Let(MountedClean(d).m.cache, LAMBDA c :
        [c EXCEPT ![MFAT_CACHE_DATA].block =
            [i \in CacheIds |->
                IF i \in ds
                THEN [state |-> MFAT_DIRTY, blk_no |-> c[MFAT_CACHE_DATA].block[i].blk_no,
                      buf |-> Mutated(c[MFAT_CACHE_DATA].block[i].buf)]
                ELSE c[MFAT_CACHE_DATA].block[i]]])

InitEvict ==
    /\ initialized = TRUE
    /\ active_partition = MountedClean(1).active_partition
    /\ partition = MountedClean(1).partition
    /\ file = [fd \in FdIds |-> ZeroFile]
    /\ \E ds \in SUBSET CacheIds : cache = DirtiedCache(1, ds)
    /\ dev = 1
    /\ wlog = << >>
    /\ last = Call("mount", -1, 1, 0, << >>, 0, << >>, NoStat, << >>, 0, FALSE)

NextEvict ==
    \/ \E block_no \in EvictBlocks, fail \in EvictFails :
           ReadBlock(block_no, MFAT_CACHE_DATA, fail)
    \/ Len(wlog) < 2 /\ Sync(0)

SpecEvict == InitEvict /\ [][NextEvict]_vars

\* The slot a cached read of block b through the data cache selects holds
\* another block and is Dirty.
EvictsDirty(b) ==
    Let(SelectItem(cache[MFAT_CACHE_DATA], b), LAMBDA s :
        /\ cache[MFAT_CACHE_DATA].block[s].state = MFAT_DIRTY
        /\ cache[MFAT_CACHE_DATA].block[s].blk_no # b)

\* What holds of every cached read of block b that replaces a Dirty slot s:
\* the write callback is invoked first, once, for the old block of s with
\* the buffer of s, and when it succeeds the block b is read into s.  When
\* the write callback returns -1 the read returns NULL without a request to
\* read, and the slot is left as Left(slot before the call) tells.
EvictionFlushes(b, Left(_)) ==
    Let(SelectItem(cache[MFAT_CACHE_DATA], b), LAMBDA s :
    Let(cache[MFAT_CACHE_DATA].block[s], LAMBDA old :
    Let(_mfat_read_block(Machine(0), b, MFAT_CACHE_DATA), LAMBDA r0 :
    Let(_mfat_read_block(Machine(1), b, MFAT_CACHE_DATA), LAMBDA r1 :
    Let(_mfat_read_block(Machine(2), b, MFAT_CACHE_DATA), LAMBDA r2 :
        /\ r0.ok /\ r0.id = s /\ r0.m.n = 2 /\ r0.m.rlog = << b >>
        /\ r0.m.wlog = Append(wlog, << old.blk_no, old.buf >>)
        /\ r0.m.cache[MFAT_CACHE_DATA].block[s] =
               [state |-> MFAT_VALID, blk_no |-> b, buf |-> DevContent(dev, r0.m.wlog, b)]
        /\ ~r1.ok /\ r1.m.n = 1 /\ r1.m.rlog = << >> /\ r1.m.wlog = wlog
        /\ r1.m.cache[MFAT_CACHE_DATA].block[s] = Left(old)
        /\ r1.m.cache[MFAT_CACHE_DATA].pri[0] = s
        /\ ~r2.ok /\ r2.m.wlog = r0.m.wlog
        /\ r2.m.cache[MFAT_CACHE_DATA].block[s].state = MFAT_INVALID
        /\ r2.m.cache[MFAT_CACHE_DATA].block[s].blk_no = b)))))

BulkPaths == {P_BIG}
BulkSets == {0, 100}
BulkReads == {1024, 700}

NextBulk ==
    \/ last.op = "init" /\ Mount(1, 0)
    \/ \E path \in BulkPaths : last.op = "mount" /\ Open(path, MFAT_O_RDONLY, 0)
    \/ \E offset \in BulkSets : file[0].open /\ Lseek(0, offset, MFAT_SEEK_SET, 0)
    \/ \E nbyte \in BulkReads, fail \in 0 .. 1 : file[0].open /\ Read(0, nbyte, fail)

SpecBulk == Init /\ [][NextBulk]_vars

\* The file positions of the blocks that a read of n bytes at offset off
\* transfers whole: from the first block boundary at or after off, every
\* 512 bytes while a whole block is left.
BodyPositions(off, n) ==
    Let(((off + MFAT_BLOCK_SIZE - 1) \div MFAT_BLOCK_SIZE) * MFAT_BLOCK_SIZE, LAMBDA start :
        IF off + n < start + MFAT_BLOCK_SIZE THEN << >>
        ELSE [k \in 1 .. ((off + n - start) \div MFAT_BLOCK_SIZE) |->
                 start + (k - 1) * MFAT_BLOCK_SIZE])

RECURSIVE ImageOfBlocks(_)
\* The content of the blocks bs of the device image, one after the other.
ImageOfBlocks(bs) ==
    IF bs = << >> THEN << >> ELSE DevImage(dev, Head(bs)) \o ImageOfBlocks(Tail(bs))

\* The read of this step, of n bytes at offset off of the file f in the
\* partition part, kept the blocks it transferred whole out of the data
\* cache; when it started on a block boundary and n is a multiple of 512 it
\* left the data cache as it was and, unless a device request failed, asked
\* the device for each of the blocks, in order, and stored what it got.
BypassesCache(part, f, off, n) ==
    Let([k \in 1 .. Len(BodyPositions(off, n)) |->
            ImageBlockOf(part, f.info, BodyPositions(off, n)[k])], LAMBDA body :
        /\ \A i \in CacheIds :
               (\E k \in 1 .. Len(body) : cache'[MFAT_CACHE_DATA].block[i].blk_no = body[k])
               => cache'[MFAT_CACHE_DATA].block[i] = cache[MFAT_CACHE_DATA].block[i]
        /\ (off % MFAT_BLOCK_SIZE = 0 /\ n % MFAT_BLOCK_SIZE = 0)
           => /\ cache'[MFAT_CACHE_DATA] = cache[MFAT_CACHE_DATA]
              /\ ~last'.failed
                 => /\ SelectSeq(last'.rlog, LAMBDA b : b >= part.first_data_block) = body
                    /\ last'.out = ImageOfBlocks(body)
                    /\ last'.ret = n)

\* C32: a read that starts on a block boundary and whose clamped length is
\* a multiple of 512 takes every block from the device callback into the
\* caller's buffer and leaves the data cache (block numbers, states,
\* buffers and priority list) as it was; in any read the blocks transferred
\* whole by the aligned body phase are not inserted into the data cache.
C32_BulkReadBypassesCache ==
    [][(last'.op = "read" /\ last'.fd = 0 /\ Readable(file[0]))
       => BypassesCache(partition[file[0].info.part_no], file[0], file[0].offset,
                        Available(file[0], last'.arg))]_vars

\* A read of the first 1024 bytes of BIG.BIN (blocks 44 and 45) that asked
\* the device for block 45 although the data cache holds it Valid from an
\* earlier read of 700 bytes.
C32_Witness ==
    /\ last.op = "read" /\ last.arg = 1024 /\ last.ret = 1024 /\ file[0].offset = 1024
    /\ \E k \in 1 .. Len(last.rlog) : last.rlog[k] = 45
    /\ \E k \in 1 .. Len(last.rlog) : last.rlog[k] = 44
    /\ \E i \in CacheIds :
           /\ cache[MFAT_CACHE_DATA].block[i].blk_no = 45
           /\ cache[MFAT_CACHE_DATA].block[i].state = MFAT_VALID
    /\ \A i \in CacheIds : cache[MFAT_CACHE_DATA].block[i].blk_no # 44

(***************************************************************************)
(* SpecFat: _mfat_next_cluster on the two partitions of device 2, for the  *)
(* clusters whose FAT entries are links, EOC marks, free, BAD and values   *)
(* with reserved bits set, and for a cluster in the second block of the    *)
(* FAT; the device request may fail.  The record of a call holds the       *)
(* partition in whence, the cluster passed in arg and the caller's         *)
(* cluster variable after the call in fd.                                  *)
(***************************************************************************)
FatClusters == {2, 3, 4, 6, 7, 8, 9, 10, 11, 12, 13, 300}

NextCluster(part_no, cluster, fail) ==
    /\ initialized
    /\ \E r \in {_mfat_next_cluster(Machine(fail), partition[part_no], cluster)} :
        /\ cache' = r.m.cache
        /\ wlog' = r.m.wlog
        /\ last' = Done("next_cluster", r.cluster, cluster, part_no, << >>,
                        IF r.ok THEN 1 ELSE 0, << >>, NoStat, r.m)
        /\ UNCHANGED << initialized, active_partition, partition, file, dev >>

NextFat ==
    \/ last.op = "init" /\ Mount(2, 0)
    \/ \E part_no \in PartIds, cluster \in FatClusters, fail \in 0 .. 1 :
           partition[part_no].type # MFAT_TYPE_UNKNOWN /\ NextCluster(part_no, cluster, fail)

SpecFat == Init /\ [][NextFat]_vars

\* The value of the FAT entry of cluster c in the image, in the numbering
\* of FAT32: the low 28 bits of a FAT32 entry; a FAT16 entry, with 0xFFF7
\* .. 0xFFFF moved to 0x0FFFFFF7 .. 0x0FFFFFFF.
UniformEntry(part, c) ==
    IF part.type = MFAT_TYPE_FAT32 THEN ImageNext(part, c)
    ELSE IF ImageNext(part, c) >= 65527 THEN ImageNext(part, c) + 268369920
    ELSE ImageNext(part, c)

\* The block of the first FAT that holds the entry of cluster c.
FatBlockOf(part, c) ==
    part.first_block + part.num_reserved_blocks
    + (((IF part.type = MFAT_TYPE_FAT32 THEN 4 ELSE 2) * c) \div MFAT_BLOCK_SIZE)

\* C33: next_cluster reads the entry of the cluster, 4 bytes wide for FAT32
\* and 2 for FAT16, from the first FAT through the FAT cache only; a FAT32
\* entry counts with its low 28 bits and a FAT16 entry from 0xFFF7 on is
\* moved to 0x0FFFFFF7 .. 0x0FFFFFFF; when the value is 0 or 0x0FFFFFF7, or
\* the FAT block cannot be read, the call fails and the caller's cluster is
\* unchanged; otherwise the value, EOC values included, is returned.
C33_NextClusterUniform ==
    [][last'.op = "next_cluster"
       => Let(partition[last'.whence], LAMBDA part :
          Let(UniformEntry(part, last'.arg), LAMBDA e :
              /\ cache'[MFAT_CACHE_DATA] = cache[MFAT_CACHE_DATA]
              /\ last'.rlog \in {<< >>, << FatBlockOf(part, last'.arg) >>}
              /\ last'.nwrite = 0
              /\ Let(cache'[MFAT_CACHE_FAT].block[cache'[MFAT_CACHE_FAT].pri[0]], LAMBDA cb :
                     /\ cb.blk_no = FatBlockOf(part, last'.arg)
                     /\ cb.state = IF last'.failed THEN MFAT_INVALID ELSE MFAT_VALID)
              /\ IF last'.failed \/ e = 0 \/ e = BAD_CLUSTER
                 THEN last'.ret = 0 /\ last'.fd = last'.arg
                 ELSE last'.ret = 1 /\ last'.fd = e
              /\ (last'.ret = 1 /\ e >= EOC_MIN) => _mfat_is_eoc(last'.fd)))]_vars

\* The entry 0xFFFFFFF8 of cluster 10 of the FAT32 partition, returned as
\* the EOC value 0x0FFFFFF8.
C33_Witness ==
    /\ last.op = "next_cluster" /\ partition[last.whence].type = MFAT_TYPE_FAT32
    /\ last.arg = 10 /\ last.ret = 1 /\ last.fd = 268435448

(***************************************************************************)
(* SpecStray: device 2 mounted and one file opened whose directory entry   *)
(* or cluster chain is damaged: R14 (first cluster 0), R15 (first cluster  *)
(* 0x0FFFFFF7), FREE.BIN (chain ends in a free entry) or BAD.BIN (chain    *)
(* ends in a BAD entry), then seeks and reads on a device whose requests   *)
(* may fail.                                                               *)
(***************************************************************************)
P_R14 == Bytes(<< "/", "R", "1", "4" >>)
P_R15 == Bytes(<< "/", "R", "1", "5" >>)
StrayPaths == {P_R14, P_R15, P_FREE, P_BAD}
StraySets == {1024, 2048}
StrayReads == {1500}

NextStray ==
    \/ last.op = "init" /\ Mount(2, 0)
    \/ \E path \in StrayPaths : last.op = "mount" /\ Open(path, MFAT_O_RDONLY, 0)
    \/ \E offset \in StraySets, fail \in 0 .. 1 :
           file[0].open /\ Lseek(0, offset, MFAT_SEEK_SET, fail)
    \/ \E nbyte \in StrayReads, fail \in 0 .. 1 :
           /\ file[0].open /\ last.op \in {"open", "lseek"}
           /\ Read(0, nbyte, fail)

SpecStray == Init /\ [][NextStray]_vars

RECURSIVE SeekCalls(_, _, _, _, _)
\* The clusters that the loop of _mfat_lseek_impl passes to
\* _mfat_next_cluster, in order, when the device answers every request: the
\* walk from current_cluster at cluster_offset to target_offset over the
\* FAT of the image.
SeekCalls(part, target_offset, bytes_per_cluster, current_cluster, cluster_offset) ==
    IF ULt(target_offset - cluster_offset, bytes_per_cluster) THEN << >>
    ELSE IF _mfat_is_eoc(current_cluster) THEN << >>
    ELSE << current_cluster >>
         \o (IF UniformEntry(part, current_cluster) \in {0, BAD_CLUSTER} THEN << >>
             ELSE SeekCalls(part, target_offset, bytes_per_cluster,
                            UniformEntry(part, current_cluster),
                            cluster_offset + bytes_per_cluster))

\* SeekCalls for a seek of the file f to target_offset, from the first
\* cluster when the target lies before the current cluster.
SeekCallsOf(part, f, target_offset) ==
    Let(part.blocks_per_cluster * MFAT_BLOCK_SIZE, LAMBDA bytes_per_cluster :
        IF ULt(target_offset, f.offset - (f.offset % bytes_per_cluster))
        THEN SeekCalls(part, target_offset, bytes_per_cluster, f.info.first_cluster, 0)
        ELSE SeekCalls(part, target_offset, bytes_per_cluster, f.current_cluster,
                       f.offset - (f.offset % bytes_per_cluster)))

RECURSIVE ReadCalls(_, _, _, _, _)
\* The clusters that _mfat_read_impl passes to _mfat_next_cluster, in order,
\* when the device answers every request: nbyte bytes are left to read from
\* byte block_offset of block block_in_cluster of cluster cluster_no.  The
\* head completes a block without a test for EOC; the body tests before
\* every block; the tail does not advance.
ReadCalls(part, cluster_no, block_in_cluster, block_offset, nbyte) ==
    IF nbyte = 0 THEN << >>
    ELSE IF block_offset # 0 /\ nbyte < MFAT_BLOCK_SIZE - block_offset THEN << >>
    ELSE IF block_offset = 0 /\ nbyte < MFAT_BLOCK_SIZE THEN << >>
    ELSE IF block_offset = 0 /\ _mfat_is_eoc(cluster_no) THEN << >>
    ELSE IF block_in_cluster + 1 # part.blocks_per_cluster
    THEN ReadCalls(part, cluster_no, block_in_cluster + 1, 0,
                   nbyte - (MFAT_BLOCK_SIZE - block_offset))
    ELSE << cluster_no >>
         \o (IF UniformEntry(part, cluster_no) \in {0, BAD_CLUSTER} THEN << >>
             ELSE ReadCalls(part, UniformEntry(part, cluster_no), 0, 0,
                            nbyte - (MFAT_BLOCK_SIZE - block_offset)))

\* ReadCalls for a read of nbyte bytes on the file f.
ReadCallsOf(part, f, nbyte) ==
    ReadCalls(part, f.current_cluster,
              (f.offset % (part.blocks_per_cluster * MFAT_BLOCK_SIZE)) \div MFAT_BLOCK_SIZE,
              f.offset % MFAT_BLOCK_SIZE, Available(f, nbyte))

\* The clusters passed to _mfat_next_cluster by the call of this step, a
\* read or a seek on descriptor 0 that passed its argument checks.
CallsOfStep ==
    IF last'.op = "read"
    THEN ReadCallsOf(partition[file[0].info.part_no], file[0], last'.arg)
    ELSE IF last'.arg >= 0 /\ last'.arg <= file[0].info.size
    THEN SeekCallsOf(partition[file[0].info.part_no], file[0], last'.arg)
    ELSE << >>

\* The call of this step is a read or a seek from the start on the open
\* descriptor 0.
WalksChain ==
    /\ last'.op \in {"read", "lseek"} /\ last'.fd = 0 /\ Readable(file[0])
    /\ last'.op = "lseek" => last'.whence = MFAT_SEEK_SET

\* C34: on a mounted volume read and lseek never pass cluster 0 or
\* 0x0FFFFFF7 to next_cluster, and whenever a FAT entry that next_cluster
\* reads is 0 or 0x0FFFFFF7 the call returns -1.
C34_NeverFromFreeOrBad ==
    [][WalksChain
       => /\ ~last'.failed
             => \A k \in 1 .. Len(CallsOfStep) : CallsOfStep[k] \notin {0, BAD_CLUSTER}
          /\ (\E k \in 1 .. Len(CallsOfStep) :
                  UniformEntry(partition[file[0].info.part_no], CallsOfStep[k])
                      \in {0, BAD_CLUSTER})
             => last'.ret = -1]_vars

\* What holds of C34: whenever a FAT entry that next_cluster reads for a
\* read or a seek is 0 or 0x0FFFFFF7, the call returns -1 and leaves the
\* descriptor as it was.
C34_FreeOrBadEntryFails ==
    [][WalksChain
       => ((\E k \in 1 .. Len(CallsOfStep) :
                UniformEntry(partition[file[0].info.part_no], CallsOfStep[k])
                    \in {0, BAD_CLUSTER})
           => last'.ret = -1 /\ file'[0] = file[0])]_vars

\* The seek to 1024 in R14, whose first cluster is 0: next_cluster was
\* called with cluster 0, read the entry of cluster 0 (0xFFF8) and the seek
\* returned 1024 with an EOC value as the current cluster.
C34_Witness ==
    /\ last.op = "lseek" /\ last.arg = 1024 /\ last.ret = 1024
    /\ file[0].open /\ file[0].info.first_cluster = 0 /\ file[0].info.size = 3000
    /\ file[0].offset = 1024 /\ _mfat_is_eoc(file[0].current_cluster)
    /\ last.rlog = << >>

(***************************************************************************)
(* SpecCycle: device 2 mounted; lookups of entries that lie in the first   *)
(* block of their directory, in a later block, or nowhere; and R13, whose  *)
(* cluster chain is the cycle 14 -> 15 -> 14, opened, sought and read on a *)
(* device whose requests may fail.                                         *)
(***************************************************************************)
P_R13 == Bytes(<< "/", "R", "1", "3" >>)
CyclePaths == {P_R13, NumPath(<< 47 >>, 82, 99), NumPath(DeepPrefix, 69, 5),
               NumPath(DeepPrefix, 69, 20)}
CycleSets == {0, 2048, 5000}
CycleReads == {1500, -1}

NextCycle ==
    \/ last.op = "init" /\ Mount(2, 0)
    \/ \E path \in CyclePaths, fail \in 0 .. 1 : last.op = "mount" /\ Stat(path, fail)
    \/ last.op = "mount" /\ Open(P_R13, MFAT_O_RDONLY, 0)
    \/ \E offset \in CycleSets, fail \in 0 .. 1 :
           file[0].open /\ Lseek(0, offset, MFAT_SEEK_SET, fail)
    \/ \E nbyte \in CycleReads, fail \in 0 .. 1 :
           file[0].open /\ Read(0, nbyte, fail)

SpecCycle == Init /\ [][NextCycle]_vars

\* The largest number of calls of _mfat_next_cluster that C35 allows for a
\* read or a seek on the file f: ceil(size / bytes per cluster) + 1.
MaxClusterSteps(part, f) ==
    Let(part.blocks_per_cluster * MFAT_BLOCK_SIZE, LAMBDA bytes_per_cluster :
        (f.info.size + bytes_per_cluster - 1) \div bytes_per_cluster + 1)

\* A read or a seek of this step calls _mfat_next_cluster at most
\* MaxClusterSteps times, and when it succeeds after such calls the
\* descriptor is left in the cluster that the last of them found.
BoundedWalk ==
    WalksChain
    => /\ Len(CallsOfStep) <= MaxClusterSteps(partition[file[0].info.part_no], file[0])
       /\ (~last'.failed /\ last'.ret >= 0 /\ CallsOfStep # << >>)
          => file'[0].current_cluster
                 = UniformEntry(partition[file[0].info.part_no],
                                CallsOfStep[Len(CallsOfStep)])

\* The block b of the device holds a directory entry whose first
\* byte is 0x00.
HasEndEntry(b) ==
    \E k \in 0 .. 15 : DevImage(dev, b)[32 * k + 1] = 0

\* The block b is the last one of the FAT16 root directory of part, or the
\* last block of a cluster whose FAT entry marks the end of a chain.
EndsDirectory(part, b) ==
    \/ /\ part.type = MFAT_TYPE_FAT16
       /\ b = part.root_dir_block + part.blocks_in_root_dir - 1
    \/ /\ b >= part.first_data_block
       /\ (b - part.first_data_block) % part.blocks_per_cluster
              = part.blocks_per_cluster - 1
       /\ _mfat_is_eoc(UniformEntry(part,
              (b - part.first_data_block) \div part.blocks_per_cluster + 2))

\* A lookup straight after mount, with the device answering every request,
\* that finds no entry: the last block it asked the device for holds a 0x00
\* entry or ends the directory.
LookupStops ==
    (/\ last.op = "stat" /\ initialized /\ ~last.failed /\ last.ret = -1
     /\ last.rlog # << >>)
    => \/ HasEndEntry(last.rlog[Len(last.rlog)])
       \/ EndsDirectory(partition[active_partition], last.rlog[Len(last.rlog)])

\* C35: read and lseek perform at most ceil(size / cluster_bytes) + 1
\* next_cluster steps whatever the FAT holds, cycles included, and a path
\* lookup stops at a match, a 0x00 entry, the end of the chain or of the
\* root area, or a failure.
C35_Terminates == [][BoundedWalk]_vars /\ []LookupStops

\* What holds of C35: read and lseek perform at most
\* ceil(size / cluster_bytes) + 1 next_cluster steps, also on a chain that
\* is a cycle, where a read of the whole file returns size bytes.
C35_WalksBounded ==
    [][BoundedWalk
       /\ (WalksChain /\ last'.op = "read" /\ ~last'.failed /\ last'.ret >= 0)
          => last'.ret = Available(file[0], last'.arg)]_vars

\* R13 read whole from its start: 5000 bytes from the clusters 14, 15, 14,
\* 15, 14, after which the descriptor is in cluster 14.
C35_Witness ==
    /\ last.op = "read" /\ last.arg = -1 /\ last.ret = 5000 /\ ~last.failed
    /\ file[0].open /\ file[0].info.first_cluster = 14 /\ file[0].info.size = 5000
    /\ file[0].offset = 5000 /\ file[0].current_cluster = 14
    /\ UniformEntry(partition[0], 14) = 15 /\ UniformEntry(partition[0], 15) = 14

(***************************************************************************)
(* SpecGeo: a caller that mounts one medium without partition table whose  *)
(* BPB varies in sectors per cluster and bytes per sector, then selects a  *)
(* partition and unmounts.  A program that a division trap has ended makes *)
(* no further call.                                                        *)
(***************************************************************************)
NextGeo ==
    \/ \E d \in GeoDevices : last.op = "init" /\ Mount(d, 0)
    \/ \E partition_no \in {0, 1} : last.op = "mount" /\ SelectPartition(partition_no)
    \/ Running /\ last.op # "init" /\ Unmount(0)

SpecGeo == Init /\ [][NextGeo]_vars

\* The cluster sizes FAT allows, in sectors (FAT.md, "BIOS Parameter Block").
ClusterSizes == {1, 2, 4, 8, 16, 32, 64, 128}

\* The first block of the partition part on the device, its BPB.
BpbOfPartition(part) == DevImage(dev, part.first_block)

\* C36: mount ends without a division by zero, and every partition it
\* classifies as FAT16 or FAT32 has blocks_per_cluster in {1, 2, 4, ..., 128}
\* and was decoded from a BPB with bytes_per_sector = 512.
C36_GeometryInvariant ==
    /\ last.op # "trap"
    /\ \A i \in PartIds :
           IsFat(partition[i])
           => /\ partition[i].blocks_per_cluster \in ClusterSizes
              /\ _mfat_get_word(BpbOfPartition(partition[i]), 11) = MFAT_BLOCK_SIZE

\* What holds of C36: every partition that mount classifies as FAT16 or
\* FAT32 was decoded from a BPB that passes the validation and has
\* bytes_per_sector = 512, and its blocks_per_cluster is the byte at offset
\* 13 of that BPB, whatever its value.
C36_SectorSizeOnly ==
    \A i \in PartIds :
        (last.op # "trap" /\ IsFat(partition[i]))
        => /\ _mfat_is_valid_bpb(BpbOfPartition(partition[i]))
           /\ _mfat_get_word(BpbOfPartition(partition[i]), 11) = MFAT_BLOCK_SIZE
           /\ partition[i].blocks_per_cluster = Byte(BpbOfPartition(partition[i]), 13)

\* A mounted FAT16 partition of 5000 clusters with 3 blocks per cluster.
C36_Witness ==
    /\ initialized /\ last.op = "mount" /\ last.ret = 0 /\ dev \in GeoDevices
    /\ partition[0].type = MFAT_TYPE_FAT16
    /\ partition[0].blocks_per_cluster = 3
    /\ partition[0].num_clusters = 5001
    /\ GeoBpsOf(dev) = MFAT_BLOCK_SIZE

(***************************************************************************)
(* SpecLfn: device 2 mounted and paths into the directory LFN, which holds *)
(* long-name entries and a deleted entry, looked up by stat and by open on *)
(* a device whose requests may fail.                                       *)
(***************************************************************************)
LfnPrefix == Bytes(<< "/", "L", "F", "N", "/" >>)
P_LFN_A == LfnPrefix \o Bytes(<< "a" >>)
P_LFN_ONE == LfnPrefix \o Bytes(<< "o", "n", "e", ".", "t", "x", "t" >>)
P_LFN_LIVE == LfnPrefix \o Bytes(<< "L", "I", "V", "E" >>)
P_LFN_PAST == LfnPrefix \o Bytes(<< "P", "A", "S", "T" >>)
P_LFN_SUB == LfnPrefix \o Bytes(<< "S", "U", "B", "/", "E", "0", "5" >>)
LfnPaths == {P_LFN_A, P_LFN_ONE, P_LFN_LIVE, P_LFN_PAST, P_LFN_SUB}

NextLfn ==
    \/ last.op = "init" /\ Mount(2, 0)
    \/ \E path \in LfnPaths, fail \in 0 .. 2 : initialized /\ Stat(path, fail)
    \/ \E path \in LfnPaths, fail \in 0 .. 1 :
           initialized /\ ~file[0].open /\ Open(path, MFAT_O_RDONLY, fail)
    \/ file[0].open /\ Fstat(0, 0)
    \/ file[0].open /\ Close(0, 0)

SpecLfn == Init /\ [][NextLfn]_vars

\* The 11-byte name that the last component of an LfnPaths path asks for.
LfnName(path) ==
    IF path = P_LFN_A THEN Bytes(<< "A", " ", " ", " ", " ", " ", " ", " ", " ", " ", " " >>)
    ELSE IF path = P_LFN_ONE
    THEN Bytes(<< "O", "N", "E", " ", " ", " ", " ", " ", "T", "X", "T" >>)
    ELSE IF path = P_LFN_LIVE
    THEN Bytes(<< "L", "I", "V", "E", " ", " ", " ", " ", " ", " ", " " >>)
    ELSE Bytes(<< "P", "A", "S", "T", " ", " ", " ", " ", " ", " ", " " >>)

\* The entries k of the directory block buf that lie before its first 0x00
\* entry and whose name field is fname; with skip, long-name entries
\* (attribute 0x0F) and deleted entries (first byte 0xE5) are left out.
Candidates(buf, fname, skip) ==
    {k \in 0 .. 15 :
        /\ \A j \in 0 .. k : buf[32 * j + 1] # 0
        /\ \A i \in 1 .. 11 : buf[32 * k + i] = fname[i]
        /\ skip => (buf[32 * k + 12] # MFAT_ATTR_LONG_NAME /\ buf[32 * k + 1] # 229)}

\* stat of a file of LFN, the device answering every request, returns -1
\* when the directory has no candidate and otherwise 0 with the size of the
\* first candidate.
LookupReturns(skip) ==
    \A path \in LfnPaths \ {P_LFN_SUB} :
        (last.op = "stat" /\ last.path = path /\ initialized /\ ~last.failed)
        => Let(Candidates(D2Lfn, LfnName(path), skip), LAMBDA ks :
               IF ks = {} THEN last.ret = -1
               ELSE /\ last.ret = 0
                    /\ last.stat.st_size
                           = _mfat_get_dword(D2Lfn, 32 * (CHOOSE k \in ks :
                                                   \A j \in ks : k <= j) + 28))

\* C37: a long-name entry (attribute 0x0F) or a deleted entry (first byte
\* 0xE5) is never returned as the match of a lookup, whatever its name field
\* holds; the scan goes on with the next entry, and an entry whose first
\* byte is 0x00 ends the directory.
C37_SkipsLongAndDeleted ==
    /\ LookupReturns(TRUE)
    /\ (last.op = "stat" /\ last.path = P_LFN_SUB /\ initialized /\ ~last.failed)
       => last.ret = 0

\* What holds of C37: the match is the first entry before the 0x00 entry
\* whose 11 name bytes equal the name asked for, whatever its attribute; a
\* deleted entry never is one, since no name asked for starts with 0xE5, and
\* a long-name entry found for a directory of the path fails the lookup.
C37_FirstNameMatch ==
    /\ LookupReturns(FALSE)
    /\ (last.op = "stat" /\ last.path = P_LFN_SUB /\ initialized /\ ~last.failed)
       => last.ret = -1

\* stat("/LFN/a") returns 0 with the size field of the long-name entry (77)
\* and not that of the file A (5) which follows it.
C37_Witness ==
    /\ last.op = "stat" /\ last.path = P_LFN_A /\ ~last.failed
    /\ last.ret = 0 /\ last.stat.st_size = 77
    /\ Byte(D2Lfn, 11) = MFAT_ATTR_LONG_NAME
    /\ Candidates(D2Lfn, LfnName(P_LFN_A), TRUE) = {1}

(***************************************************************************)
(* SpecSwitch: device 1 mounted; BIG.BIN of the FAT16 partition or         *)
(* DATA.BIN of the FAT32 partition opened, and the active partition        *)
(* switched while the file is open, between reads, seeks and status        *)
(* requests; paths are looked up before and after a switch.                *)
(***************************************************************************)
SwitchPaths == {P_BIG, P_DATA}
SwitchParts == {0, 1}
SwitchSets == {1100}
SwitchReads == {700}

NextSwitch ==
    \/ last.op = "init" /\ Mount(1, 0)
    \/ \E partition_no \in SwitchParts : initialized /\ SelectPartition(partition_no)
    \/ \E path \in SwitchPaths : initialized /\ ~file[0].open /\ Open(path, MFAT_O_RDONLY, 0)
    \/ \E path \in SwitchPaths :
           last.op \in {"mount", "select_partition"} /\ initialized /\ Stat(path, 0)
    \/ \E nbyte \in SwitchReads : file[0].open /\ Read(0, nbyte, 0)
    \/ \E offset \in SwitchSets : file[0].open /\ Lseek(0, offset, MFAT_SEEK_SET, 0)
    \/ last.op = "select_partition" /\ file[0].open /\ Fstat(0, 0)

SpecSwitch == Init /\ [][NextSwitch]_vars

\* The partition of device 1 that holds the file a SwitchPaths path names.
PartitionOfPath(path) == IF path = P_BIG THEN 0 ELSE 1

\* select_partition changes nothing but the active partition.
SwitchFrame ==
    last'.op = "select_partition"
    => UNCHANGED << initialized, partition, file, cache, dev, wlog >>

\* read, lseek and fstat on the open descriptor 0 work on the partition the
\* file was opened on: a read yields the bytes of the file's chain in that
\* partition, a seek leaves the descriptor in the cluster of that chain
\* that holds the target, fstat yields the size of the file.
BoundToOwnPartition ==
    LET f == file[0]
        part == partition[f.info.part_no]
    IN  (last'.fd = 0 /\ f.open /\ ~last'.failed)
        => /\ last'.op = "read"
              => /\ last'.ret = Available(f, last'.arg)
                 /\ last'.out = ImageBytes(part, f.info, f.offset, last'.ret)
           /\ last'.op = "lseek"
              => /\ last'.ret = last'.arg
                 /\ file'[0].current_cluster
                        = ImageCluster(part, f.info.first_cluster,
                              last'.arg \div (part.blocks_per_cluster * MFAT_BLOCK_SIZE))
           /\ last'.op = "fstat"
              => last'.ret = 0 /\ last'.stat.st_size = f.info.size

\* open and stat look the path up on the partition that is active at the
\* call, and open binds the descriptor to it.
ResolvesOnActive ==
    (last'.op \in {"open", "stat"} /\ initialized /\ ~last'.failed)
    => /\ last'.ret >= 0 <=> PartitionOfPath(last'.path) = active_partition
       /\ (last'.op = "open" /\ last'.ret >= 0)
          => file'[last'.ret].info.part_no = active_partition

\* C39: select_partition changes only active_partition and leaves every fd
\* slot and both caches unchanged; read, lseek and fstat on an fd opened
\* before the switch keep using the geometry and FAT of info.part_no and
\* return what they return without the switch; only later open and stat
\* calls resolve paths on the newly selected partition.
C39_FdBoundToPartition ==
    [][SwitchFrame /\ BoundToOwnPartition /\ ResolvesOnActive]_vars

\* BIG.BIN of partition 0, opened before partition 1 was selected, read
\* across the boundary of its first cluster (3 -> 5) while partition 1 is
\* active.
C39_Witness ==
    /\ last.op = "read" /\ last.ret = 700 /\ ~last.failed
    /\ file[0].open /\ file[0].info.part_no = 0 /\ active_partition = 1
    /\ file[0].offset = 1400 /\ file[0].current_cluster = 5
    /\ partition[0].blocks_per_cluster # partition[1].blocks_per_cluster

=============================================================================
